---- MODULE Spec2Model ----
(***************************************************************************)
(* A model of the simulation core of the frames puzzle-platformer          *)
(* (src/src/game/world.cpp): the frame list and its z-order, the occlusion *)
(* flags, the collision resolver, the player's fixed-step physics, the     *)
(* drag controller and the level/session state machine.                    *)
(*                                                                         *)
(* One action, Tick, models World::Tick followed by World::State::Tick for *)
(* one input snapshot.  The blocks of State::Tick are operators on a       *)
(* record of the session state, composed in source order.                  *)
(*                                                                         *)
(* Floats (velocity, sub-pixel remainder, fade) are fixed-point integers   *)
(* in units of 1/FP.  Purely cosmetic state that nothing reads back        *)
(* (particles, hover and tutorial timers, the reset button's visibility    *)
(* timer, background and global tick counters, sounds other than the       *)
(* events recorded in `ev`) is left out.                                   *)
(***************************************************************************)
EXTENDS Integers, Sequences, FiniteSets, TLC

\* ------------------------------------------------------------------------
\* Program constants
\* ------------------------------------------------------------------------

tile_size == 16

screen_size_x == 480

screen_size_y == 270

\* Fixed-point scale of the float quantities (hundredths).
FP == 100

walk_speed == 150

walk_acc == 40

walk_dec == 40

gravity == 13

gravity_lowjump == 24

max_fall_speed == 400

jump_speed == 300

\* vel_comp *= 0.98f, as a percentage.
comp_damp_percent == 98

fade_step == 3

death_delay == 45

exit_hitbox_size == 5

key_hitbox_size == 5

reset_button_size == 32

frame_clamp_margin == 8

vec(a, b) == [x |-> a, y |-> b]

vadd(a, b) == [x |-> a.x + b.x, y |-> a.y + b.y]

vsub(a, b) == [x |-> a.x - b.x, y |-> a.y - b.y]

Abs(a) == IF a < 0 THEN -a ELSE a

\* F applied to the value of x.  (TLC evaluates x once, when it enumerates the
\* singleton set, instead of once per use inside F.)
Bind(x, F(_)) == CHOOSE r \in { F(v) : v \in {x} } : TRUE

\* C++ integer division truncates toward zero.
CDiv(a, b) == IF a >= 0 THEN a \div b ELSE -((-a) \div b)

\* A conversion to an integer that drops the fraction.
RoundTowardZero(v) == CDiv(v, FP)

\* std::round on a fixed-point value: nearest integer, halves away from zero.
Round(v) == IF v >= 0 THEN (v + FP \div 2) \div FP ELSE -((-v + FP \div 2) \div FP)

\* ------------------------------------------------------------------------
\* Frame templates and levels (static data)
\* ------------------------------------------------------------------------

Frames ==
       "flower_island" :> <<
           <<"-","-","-","-","-">>,
           <<"-","-","-","-","-">>,
           <<"-","-","-","-","-">>,
           <<"-","-","1","-","-">>,
           <<"-","#","#","#","-">>,
           <<"-","-","-","-","-">> >>
    @@ "vortex" :> <<
           <<"-","-","-","-","-">>,
           <<"-","-","-","-","-">>,
           <<"-","-","1","-","-">>,
           <<"-","#","#","#","-">> >>
    @@ "box" :> <<
           <<"-","#","#","#","-">>,
           <<"-","#","2","#","-">>,
           <<"-","#","1","#","-">>,
           <<"#","#","#","#","#">> >>
    @@ "desert" :> <<
           <<"-","-","-">>,
           <<"-","-","-">>,
           <<"-","1","-">>,
           <<"#","#","#">> >>
    @@ "bubbles" :> <<
           <<"-","-","-","-","-","-","-","-","-">>,
           <<"-","-","-","-","-","-","-","-","-">>,
           <<"#","-","#","#","#","#","#","#","#">>,
           <<"#","-","-","-","-","-","-","1","#">>,
           <<"#","#","#","#","#","#","#","#","#">>,
           <<"-","-","-","#","2","#","-","-","-">>,
           <<"-","-","-","#","#","#","-","-","-">> >>
    @@ "vert_glass_tube" :> <<
           <<"-","-","-">>,
           <<"#","-","#">>,
           <<"#","-","#">>,
           <<"#","-","#">> >>
    @@ "stone_wall" :> <<
           <<"-","-","-","-","-","-","-">>,
           <<"-","-","-","2","-","-","-">>,
           <<"-","-","-","-","-","-","-">>,
           <<"-","-","-","-","-","-","-">>,
           <<"-","-","-","-","-","-","-">>,
           <<"-","-","-","-","-","-","-">>,
           <<"-","-","-","1","-","-","-">>,
           <<"#","#","#","#","#","#","#">> >>
    @@ "chimney" :> <<
           <<"-","-","-">>,
           <<"#","#","-">>,
           <<"#","#","-">> >>
    @@ "coil" :> <<
           <<"-","-","-">>,
           <<"#","#","#">>,
           <<"#","1","#">> >>
    @@ "snek" :> <<
           <<"#","1","#","#","#","3","#">>,
           <<"#","#","#","2","#","#","#">> >>
    @@ "staff" :> <<
           <<"#","#","#","#","#","-">>,
           <<"-","-","-","-","#","#">> >>
    @@ "stars" :> <<
           <<"-","-">>,
           <<"-","-">> >>
    @@ "clamp" :> <<
           <<"#","#","#","#","#","#">>,
           <<"-","-","-","-","1","#">>,
           <<"-","#","#","#","#","#">> >>
    @@ "hole" :> <<
           <<"#","-","#">>,
           <<"#","-","#">>,
           <<"#","-","#">>,
           <<"#","-","#">>,
           <<"#","1","#">>,
           <<"#","#","#">> >>
    @@ "cat" :> <<
           <<"1","-","-">>,
           <<"#","-","-">>,
           <<"#","#","-">> >>

LevelFrame(t, px, py, ents) ==
    [type |-> t, pos |-> vec(px, py), spawned_entity_types |-> ents]

levels == <<
    << LevelFrame("flower_island", -50, 20, <<"player">>),
       LevelFrame("vortex", 70, -20, <<"exit">>) >>,
    << LevelFrame("desert", -50, -20, <<"player">>),
       LevelFrame("box", 70, 20, <<"exit">>) >>,
    << LevelFrame("stone_wall", 50, 0, <<"player", "exit">>),
       LevelFrame("chimney", -50, -40, <<>>),
       LevelFrame("coil", -50, 40, <<"key">>) >>,
    << LevelFrame("bubbles", -40, 0, <<"player", "exit">>),
       LevelFrame("vert_glass_tube", 80, 0, <<>>) >>,
    << LevelFrame("snek", 0, 40, <<"player", "key", "exit">>),
       LevelFrame("staff", -30, -40, <<>>),
       LevelFrame("stars", 60, -40, <<>>) >>,
    << LevelFrame("box", -60, -30, <<"player", "exit">>),
       LevelFrame("clamp", -60, 40, <<"key">>),
       LevelFrame("hole", 40, 0, <<"key">>),
       LevelFrame("cat", 120, 0, <<"key">>) >>
>>

\* ------------------------------------------------------------------------
\* FrameType and Frame geometry
\* ------------------------------------------------------------------------

\* FrameType::TileSize: (columns, rows) of the grid, (0,0) for an empty grid.
TileSize(t) ==
    IF Len(Frames[t]) = 0 THEN vec(0, 0)
    ELSE vec(Len(Frames[t][1]), Len(Frames[t]))

\* FrameType::PixelSize.
PixelSize(t) == vec(TileSize(t).x * tile_size, TileSize(t).y * tile_size)

\* PixelSize / 2 of every template, tabulated (the templates are constant).
HalfPixelSize == [t \in DOMAIN Frames |-> vec(CDiv(PixelSize(t).x, 2), CDiv(PixelSize(t).y, 2))]

PixelSizeOf == [t \in DOMAIN Frames |-> PixelSize(t)]

\* FrameType::GetTopLeftCorner, for a frame placed at pos.
TopLeftCorner(f) ==
    vec(f.pos.x - HalfPixelSize[f.type].x, f.pos.y - HalfPixelSize[f.type].y)

\* Frame::WorldPixelIsInRect for the pixel (px, py): a <= pixel < a + PixelSize.
InRect(f, px, py) ==
    /\ px >= f.pos.x - HalfPixelSize[f.type].x
    /\ py >= f.pos.y - HalfPixelSize[f.type].y
    /\ px < f.pos.x - HalfPixelSize[f.type].x + PixelSizeOf[f.type].x
    /\ py < f.pos.y - HalfPixelSize[f.type].y + PixelSizeOf[f.type].y

WorldPixelIsInRect(f, pixel) == InRect(f, pixel.x, pixel.y)

\* A tile coordinate rounded to the nearest tile instead of truncated.
TileCoordXRounded(f, px) ==
    CDiv(px - (f.pos.x - HalfPixelSize[f.type].x) + CDiv(tile_size, 2), tile_size)

\* The tile coordinate a world pixel maps to (0-based, as in the source).
TileCoordX(f, px) == CDiv(px - (f.pos.x - HalfPixelSize[f.type].x), tile_size)

TileCoordY(f, py) == CDiv(py - (f.pos.y - HalfPixelSize[f.type].y), tile_size)

\* The branch of QueryWorldPixel guarded by assert(false).
TileCoordOutOfRange(f, px, py) ==
    \/ TileCoordX(f, px) < 0
    \/ TileCoordY(f, py) < 0
    \/ TileCoordX(f, px) >= Len(Frames[f.type][1])
    \/ TileCoordY(f, py) >= Len(Frames[f.type])

\* Frame::QueryWorldPixel: -1 = not in AABB, 0 = not solid, 1 = solid.
QueryWorldPixel(f, px, py) ==
    IF ~InRect(f, px, py) THEN -1
    ELSE IF TileCoordOutOfRange(f, px, py) THEN -1
    ELSE IF Frames[f.type][TileCoordY(f, py) + 1][TileCoordX(f, px) + 1] = "#" THEN 1 ELSE 0

\* ------------------------------------------------------------------------
\* Entity markers
\* ------------------------------------------------------------------------

\* The marker character of the k-th requested entity: ch starts at '1', ch++.
MarkerChars == <<"1", "2", "3", "4", "5", "6", "7", "8", "9">>

\* The cells of a template holding character ch, as 0-based (x, y).
MarkerCells(t, ch) ==
    { c \in (0 .. TileSize(t).x - 1) \X (0 .. TileSize(t).y - 1) :
        Frames[t][c[2] + 1][c[1] + 1] = ch }

\* The first cell in row-major order (y outer, x inner) holding ch.
FirstMarkerCell(t, ch) ==
    CHOOSE c \in MarkerCells(t, ch) :
        \A d \in MarkerCells(t, ch) : c[2] < d[2] \/ (c[2] = d[2] /\ c[1] <= d[1])

\* offset_to_spawned_entity for a marker cell of frame f.
MarkerOffset(f, c) ==
    LET tl == TopLeftCorner(f)
    IN  vec(tl.x + c[1] * tile_size + CDiv(tile_size, 2) - f.pos.x,
            tl.y + c[2] * tile_size + CDiv(tile_size, 2) - f.pos.y)

\* A loop body that looks for the marker only when the kind places something.
InitOneEntitySkipping(acc, k) ==
    IF acc.error THEN acc
    ELSE
      LET f  == acc.frame
          ch == MarkerChars[k]
          e  == f.spawned_entity_types[k]
      IN  IF e = "none" THEN acc
          ELSE IF MarkerCells(f.type, ch) = {} THEN [acc EXCEPT !.error = TRUE]
          ELSE
            LET off == MarkerOffset(f, FirstMarkerCell(f.type, ch))
            IN  CASE e = "player" ->
                       [acc EXCEPT !.player.exists = TRUE,
                                   !.player.pos = vadd(f.pos, off)]
                  [] e = "exit" ->
                       [acc EXCEPT !.frame.exit_pos = <<off>>]
                  [] e = "key" ->
                       [acc EXCEPT !.frame.key_positions = Append(@, off)]
                  [] OTHER -> acc

\* The loop body of InitEntityFromSpecificFrame for the k-th requested entity,
\* on acc = [frame, player, error].  A missing marker throws: error is set and
\* the rest of the loop does not run.
\* A faulty step that advances the marker character before using it.
InitOneEntityNextMarker(acc, k) ==
    IF acc.error THEN acc
    ELSE
      LET f  == acc.frame
          ch == MarkerChars[k + 1]
          e  == f.spawned_entity_types[k]
      IN  IF MarkerCells(f.type, ch) = {} THEN [acc EXCEPT !.error = TRUE]
          ELSE
            LET off == MarkerOffset(f, FirstMarkerCell(f.type, ch))
            IN  CASE e = "player" ->
                       [acc EXCEPT !.player.exists = TRUE,
                                   !.player.pos = vadd(f.pos, off)]
                  [] e = "exit" ->
                       [acc EXCEPT !.frame.exit_pos = <<off>>]
                  [] e = "key" ->
                       [acc EXCEPT !.frame.key_positions = Append(@, off)]
                  [] OTHER -> acc

InitOneEntity(acc, k) ==
    IF acc.error THEN acc
    ELSE
      LET f  == acc.frame
          ch == MarkerChars[k]
          e  == f.spawned_entity_types[k]
      IN  IF MarkerCells(f.type, ch) = {} THEN [acc EXCEPT !.error = TRUE]
          ELSE
            LET off == MarkerOffset(f, FirstMarkerCell(f.type, ch))
            IN  CASE e = "player" ->
                       [acc EXCEPT !.player.exists = TRUE,
                                   !.player.pos = vadd(f.pos, off)]
                  [] e = "exit" ->
                       [acc EXCEPT !.frame.exit_pos = <<off>>]
                  [] e = "key" ->
                       [acc EXCEPT !.frame.key_positions = Append(@, off)]
                  [] OTHER -> acc

RECURSIVE InitEntityLoop(_, _)
InitEntityLoop(acc, k) ==
    IF k > Len(acc.frame.spawned_entity_types) THEN acc
    ELSE Bind(InitOneEntity(acc, k), LAMBDA a : InitEntityLoop(a, k + 1))

\* A resolution that does not clear the key list first.
InitEntityFromSpecificFrameAppending(f, pl) ==
    Bind([frame |-> f, player |-> pl, error |-> FALSE],
         LAMBDA a : InitEntityLoop(a, 1))

\* World::State::InitEntityFromSpecificFrame: returns [frame, player, error].
InitEntityFromSpecificFrame(f, pl) ==
    Bind([frame |-> [f EXCEPT !.key_positions = <<>>], player |-> pl, error |-> FALSE],
         LAMBDA a : InitEntityLoop(a, 1))

\* World::State::InitEntitiesFromFrames on acc = [frames, player, error],
\* frame by frame from index i on.
RECURSIVE InitEntitiesFromFrames(_, _)
InitEntitiesFromFrames(acc, i) ==
    IF i > Len(acc.frames) \/ acc.error THEN acc
    ELSE Bind(InitEntityFromSpecificFrame(acc.frames[i], acc.player),
              LAMBDA r : Bind([frames |-> [acc.frames EXCEPT ![i] = r.frame],
                               player |-> r.player, error |-> r.error],
                              LAMBDA a : InitEntitiesFromFrames(a, i + 1)))

\* A default-constructed Player (player = {}).
DefaultPlayer ==
    [exists |-> FALSE, exists_prev |-> FALSE, pos |-> vec(0, 0),
     vel |-> vec(0, 0), vel_comp |-> vec(0, 0),
     on_ground |-> FALSE, on_ground_prev |-> FALSE, facing_left |-> FALSE,
     movement_timer |-> 0, holding_jump |-> FALSE, death_timer |-> 0]

\* The Frame constructor applied to a level entry.
NewFrame(lf) ==
    [type |-> lf.type, pos |-> lf.pos, hovered |-> FALSE, dragged |-> FALSE,
     drag_offset_relative_to_mouse |-> vec(0, 0),
     spawned_entity_types |-> lf.spawned_entity_types,
     aabb_overlaps_player |-> FALSE, player_is_under_this_frame |-> FALSE,
     exit_pos |-> <<>>, key_positions |-> <<>>]

LevelFrames(idx) == [i \in 1 .. Len(levels[idx + 1]) |-> NewFrame(levels[idx + 1][i])]

\* A faulty load that leaves the winning flag set.
LoadLevelDataKeepingWin(w) ==
    Bind(InitEntitiesFromFrames(
             [frames |-> LevelFrames(w.current_level_index),
              player |-> DefaultPlayer, error |-> FALSE], 1),
         LAMBDA r :
             [w EXCEPT !.frames = r.frames, !.movement_started = FALSE,
                       !.player = r.player, !.fade = FP,
                       !.content_error = w.content_error \/ r.error])

\* A restart that reloads the frames from the level's static layout.
RestartLevelFromLayout(w) ==
    Bind(InitEntitiesFromFrames(
             [frames |-> LevelFrames(w.current_level_index),
              player |-> DefaultPlayer, error |-> FALSE], 1),
         LAMBDA r :
             [w EXCEPT !.frames = r.frames, !.movement_started = FALSE,
                       !.player = r.player,
                       !.content_error = w.content_error \/ r.error])

\* World::State::LoadLevelData on the session record w (level index 0-based).
LoadLevelData(w) ==
    Bind(InitEntitiesFromFrames(
             [frames |-> LevelFrames(w.current_level_index),
              player |-> DefaultPlayer, error |-> FALSE], 1),
         LAMBDA r :
             [w EXCEPT !.frames = r.frames, !.movement_started = FALSE,
                       !.player = r.player, !.fade = FP, !.winning_fade_out = FALSE,
                       !.content_error = w.content_error \/ r.error])

\* World::State::RestartLevel: the frame list is kept, only entities are re-derived.
\* A restart that keeps the death timer of the player it replaces.
RestartLevelKeepingTimer(w) ==
    Bind(InitEntitiesFromFrames(
             [frames |-> w.frames,
              player |-> [DefaultPlayer EXCEPT !.death_timer = w.player.death_timer],
              error |-> FALSE], 1),
         LAMBDA r :
             [w EXCEPT !.frames = r.frames, !.movement_started = FALSE,
                       !.player = r.player,
                       !.content_error = w.content_error \/ r.error])

RestartLevel(w) ==
    Bind(InitEntitiesFromFrames(
             [frames |-> w.frames, player |-> DefaultPlayer, error |-> FALSE], 1),
         LAMBDA r :
             [w EXCEPT !.frames = r.frames, !.movement_started = FALSE,
                       !.player = r.player,
                       !.content_error = w.content_error \/ r.error])

\* ------------------------------------------------------------------------
\* Input snapshot (World::Tick) and the blocks of World::State::Tick
\* ------------------------------------------------------------------------
\* Frame indices are 1-based here; an absent index (std::size_t(-1), an empty
\* std::optional) is 0.

NoIndex == 0

IsPressed(b) == b.is_down /\ ~b.is_down_prev

\* World::Tick: shift is_down into is_down_prev and read the new state.
ReadMouse(m, mp, md) == [pos |-> mp, is_down |-> md, is_down_prev |-> m.is_down]

ReadKey(b, d) == [is_down |-> d, is_down_prev |-> b.is_down]

ReadKeys(k, in) ==
    [left  |-> ReadKey(k.left, in.left),   right |-> ReadKey(k.right, in.right),
     jump  |-> ReadKey(k.jump, in.jump),   reset |-> ReadKey(k.reset, in.reset)]

reset_button_pos ==
    vec(CDiv(screen_size_x, 2) - reset_button_size, CDiv(screen_size_y, 2) - reset_button_size)

MouseOnResetButton(m) ==
    /\ m.pos.x >= reset_button_pos.x
    /\ m.pos.y >= reset_button_pos.y
    /\ m.pos.x < reset_button_pos.x + reset_button_size
    /\ m.pos.y < reset_button_pos.y + reset_button_size

\* "The reset button": hover check and kill.
ResetButton(w, m, k) ==
    IF w.movement_started
    THEN LET h == MouseOnResetButton(m)
         IN  IF (h /\ IsPressed(m)) \/ IsPressed(k.reset)
             THEN [w EXCEPT !.reset_button_hovered = h, !.player.exists = FALSE]
             ELSE [w EXCEPT !.reset_button_hovered = h]
    ELSE [w EXCEPT !.reset_button_hovered = FALSE]

\* A faulty click rule that also fires before movement has started.
ClickKillWhileEditing(w, m) ==
    IF /\ IsPressed(m) /\ ~w.winning_fade_out
       /\ \E i \in 1 .. Len(w.frames) : WorldPixelIsInRect(w.frames[i], m.pos)
    THEN [w EXCEPT !.player.exists = FALSE]
    ELSE w

\* A click kill that takes a held button for a press.
ClickKillWhileHeld(w, m) ==
    IF /\ w.movement_started /\ m.is_down /\ ~w.winning_fade_out
       /\ \E i \in 1 .. Len(w.frames) : WorldPixelIsInRect(w.frames[i], m.pos)
    THEN [w EXCEPT !.player.exists = FALSE]
    ELSE w

\* "Clicking a frame during movement kills the player".
ClickKill(w, m) ==
    IF /\ w.movement_started /\ IsPressed(m) /\ ~w.winning_fade_out
       /\ \E i \in 1 .. Len(w.frames) : WorldPixelIsInRect(w.frames[i], m.pos)
    THEN [w EXCEPT !.player.exists = FALSE]
    ELSE w

\* A hover condition that does not look at the reset button.
HoverCandidateUnderButton(w, m, i) ==
    \/ w.frames[i].dragged
    \/ /\ WorldPixelIsInRect(w.frames[i], m.pos)
       /\ ~w.winning_fade_out

\* The hover condition of one frame in "Resolve which frame is hovered".
HoverCandidate(w, m, i) ==
    \/ w.frames[i].dragged
    \/ /\ ~w.reset_button_hovered
       /\ WorldPixelIsInRect(w.frames[i], m.pos)
       /\ ~w.winning_fade_out

\* hovered_frame_index: the scan runs from the last frame to the first and
\* takes the first candidate.
HoveredFrameIndex(w, m) ==
    LET c == { i \in 1 .. Len(w.frames) : HoverCandidate(w, m, i) }
    IN  IF c = {} THEN NoIndex ELSE CHOOSE i \in c : \A j \in c : j <= i

ResolveHover(w, m) ==
    LET h == HoveredFrameIndex(w, m)
    IN  [w EXCEPT !.frames = [i \in 1 .. Len(w.frames) |->
                                 [w.frames[i] EXCEPT !.hovered = (i = h)]]]

\* A faulty promotion that swaps the frame with the last one.
RotateToEndBySwap(fs, h) ==
    [i \in 1 .. Len(fs) |->
        IF i = h THEN fs[Len(fs)] ELSE IF i = Len(fs) THEN fs[h] ELSE fs[i]]

\* std::rotate(begin + h, begin + h + 1, end): element h goes to the end.
RotateToEnd(fs, h) ==
    [i \in 1 .. Len(fs) |->
        IF i < h THEN fs[i] ELSE IF i < Len(fs) THEN fs[i + 1] ELSE fs[h]]

\* A drag start that marks the hovered frame where it is in the list.
StartDragInPlace(w, m, h) ==
    IF IsPressed(m) /\ h # NoIndex /\ ~w.winning_fade_out
    THEN [w EXCEPT !.frames = [w.frames EXCEPT ![h].dragged = TRUE,
                                               ![h].drag_offset_relative_to_mouse =
                                                   vsub(w.frames[h].pos, m.pos)],
                   !.any_dragged = TRUE,
                   !.dragged_at_least_once = TRUE,
                   !.ev = @ \cup {"drag_start"}]
    ELSE w

\* "Start drag".  Returns the session with any_frame_dragged in .any_dragged.
StartDrag(w, m, h) ==
    IF IsPressed(m) /\ h # NoIndex /\ ~w.winning_fade_out
    THEN LET fs == RotateToEnd(w.frames, h)
             n  == Len(fs)
         IN  [w EXCEPT !.frames = [fs EXCEPT ![n].dragged = TRUE,
                                             ![n].drag_offset_relative_to_mouse =
                                                 vsub(fs[n].pos, m.pos)],
                       !.any_dragged = TRUE,
                       !.dragged_at_least_once = TRUE,
                       !.ev = @ \cup {"drag_start"}]
    ELSE w

\* A drag end that only looks at the button and the win.
FinishDragOnRelease(w, m) ==
    IF (~m.is_down \/ w.winning_fade_out) /\ w.any_dragged
    THEN [w EXCEPT !.frames[Len(w.frames)].dragged = FALSE,
                   !.drag_ended_once = TRUE, !.ev = @ \cup {"drag_end"}]
    ELSE w

\* A drag end that waits for the button to be released.
FinishDragOnButtonOnly(w, m) ==
    IF ~m.is_down /\ w.any_dragged
    THEN [w EXCEPT !.frames[Len(w.frames)].dragged = FALSE,
                   !.drag_ended_once = TRUE, !.ev = @ \cup {"drag_end"}]
    ELSE w

\* "Finish drag".
FinishDrag(w, m) ==
    IF /\ (~m.is_down \/ w.winning_fade_out \/ (w.movement_started /\ w.player.exists))
       /\ w.any_dragged
    THEN [w EXCEPT !.frames[Len(w.frames)].dragged = FALSE,
                   !.drag_ended_once = TRUE, !.ev = @ \cup {"drag_end"}]
    ELSE w

\* The clamp of one coordinate to [-bound, bound].
ClampCoord(v, bound) == IF v < -bound THEN -bound ELSE IF v > bound THEN bound ELSE v

\* A clamp to the screen without the margin.
ClampFramePosNoMargin(t, p) ==
    LET bx == CDiv(screen_size_x, 2) - CDiv(PixelSize(t).x, 2)
        by == CDiv(screen_size_y, 2) - CDiv(PixelSize(t).y, 2)
    IN  vec(ClampCoord(p.x, bx), ClampCoord(p.y, by))

ClampFramePos(t, p) ==
    LET bx == CDiv(screen_size_x, 2) - CDiv(PixelSize(t).x, 2) - frame_clamp_margin
        by == CDiv(screen_size_y, 2) - CDiv(PixelSize(t).y, 2) - frame_clamp_margin
    IN  vec(ClampCoord(p.x, bx), ClampCoord(p.y, by))

\* A continue step that re-derives the entities whether or not movement has
\* started.
ContinueDragAlwaysDeriving(w, m) ==
    LET n == Len(w.frames) IN
    IF w.frames[n].dragged
    THEN LET f  == w.frames[n]
             np == ClampFramePos(f.type, vadd(m.pos, f.drag_offset_relative_to_mouse))
         IN  Bind(InitEntityFromSpecificFrame([f EXCEPT !.pos = np], w.player),
                  LAMBDA r : [w EXCEPT !.frames[n] = r.frame, !.player = r.player,
                                       !.content_error = @ \/ r.error])
    ELSE w

\* A continue step that moves the frame and leaves the entities where they were.
ContinueDragKeepingEntities(w, m) ==
    LET n == Len(w.frames) IN
    IF w.frames[n].dragged
    THEN [w EXCEPT !.frames[n].pos =
                       ClampFramePos(w.frames[n].type,
                                     vadd(m.pos, w.frames[n].drag_offset_relative_to_mouse))]
    ELSE w

\* "Continue drag": the last frame follows the mouse, clamped; before movement
\* starts its entities are re-derived.
ContinueDrag(w, m) ==
    LET n == Len(w.frames) IN
    IF w.frames[n].dragged
    THEN LET f  == w.frames[n]
             np == ClampFramePos(f.type, vadd(m.pos, f.drag_offset_relative_to_mouse))
             moved == [f EXCEPT !.pos = np]
         IN  IF ~w.movement_started
             THEN Bind(InitEntityFromSpecificFrame(moved, w.player),
                       LAMBDA r : [w EXCEPT !.frames[n] = r.frame, !.player = r.player,
                                            !.content_error = @ \/ r.error])
             ELSE [w EXCEPT !.frames[n] = moved]
    ELSE w

\* The whole "Dragging" block; any_frame_dragged is computed before the hover
\* resolution and hovered_frame_index by it.
Dragging(w, m, h, any_frame_dragged) ==
    Bind(StartDrag([w EXCEPT !.any_dragged = any_frame_dragged], m, h),
         LAMBDA a : Bind(FinishDrag(a, m), LAMBDA b : ContinueDrag(b, m)))

\* ------------------------------------------------------------------------
\* Occlusion bookkeeping
\* ------------------------------------------------------------------------

player_hitbox_corners == << vec(-4, -3), vec(3, -3), vec(-4, 7), vec(3, 7) >>

player_hitbox_full ==
    [i \in 1 .. 8   |-> vec(i - 5, -3)] \o
    [i \in 1 .. 8   |-> vec(i - 5, 7)] \o
    [i \in 1 .. 9   |-> vec(-4, i - 3)] \o
    [i \in 1 .. 9   |-> vec(3, i - 3)]

CornerInRect(f, pos) ==
    \E c \in 1 .. Len(player_hitbox_corners) :
        WorldPixelIsInRect(f, vadd(pos, player_hitbox_corners[c]))

SpawnsPlayer(f) ==
    \E k \in 1 .. Len(f.spawned_entity_types) : f.spawned_entity_types[k] = "player"

\* A faulty iteration that keeps the flag of a frame the player has left.
UpdateAABBOneKeepingFlag(acc, i, movement_started, pos) ==
    LET f0 == acc.frames[i]
        under0 == IF ~movement_started THEN FALSE ELSE f0.player_is_under_this_frame
        overlap == CornerInRect(f0, pos)
        under1 == IF overlap /\ acc.no_movement_and_found_player_frame THEN TRUE ELSE under0
    IN  [frames |-> [acc.frames EXCEPT ![i].aabb_overlaps_player = overlap,
                                       ![i].player_is_under_this_frame = under1],
         topmost_touched_frame |->
             IF overlap /\ ~under0 THEN i ELSE acc.topmost_touched_frame,
         no_movement_and_found_player_frame |->
             acc.no_movement_and_found_player_frame
                 \/ (~movement_started /\ SpawnsPlayer(f0))]

\* A faulty iteration that keeps the first touched frame it finds.
UpdateAABBOneKeepingFirst(acc, i, movement_started, pos) ==
    LET f0 == acc.frames[i]
        under0 == IF ~movement_started THEN FALSE ELSE f0.player_is_under_this_frame
        overlap == CornerInRect(f0, pos)
        under1 == IF overlap /\ acc.no_movement_and_found_player_frame THEN TRUE ELSE under0
        under2 == IF ~overlap THEN FALSE ELSE under1
    IN  [frames |-> [acc.frames EXCEPT ![i].aabb_overlaps_player = overlap,
                                       ![i].player_is_under_this_frame = under2],
         topmost_touched_frame |->
             IF overlap /\ ~under0 /\ acc.topmost_touched_frame = NoIndex
             THEN i ELSE acc.topmost_touched_frame,
         no_movement_and_found_player_frame |->
             acc.no_movement_and_found_player_frame
                 \/ (~movement_started /\ SpawnsPlayer(f0))]

\* A faulty iteration that resets the flag before the frames listed after the
\* player's frame are flagged, overlap or not.
UpdateAABBOneFlaggingAfterReset(acc, i, movement_started, pos) ==
    LET f0 == acc.frames[i]
        under0 == IF ~movement_started THEN FALSE ELSE f0.player_is_under_this_frame
        overlap == CornerInRect(f0, pos)
        under1 == IF ~overlap THEN FALSE ELSE under0
        under2 == IF acc.no_movement_and_found_player_frame THEN TRUE ELSE under1
    IN  [frames |-> [acc.frames EXCEPT ![i].aabb_overlaps_player = overlap,
                                       ![i].player_is_under_this_frame = under2],
         topmost_touched_frame |->
             IF overlap /\ ~under0 THEN i ELSE acc.topmost_touched_frame,
         no_movement_and_found_player_frame |->
             acc.no_movement_and_found_player_frame
                 \/ (~movement_started /\ SpawnsPlayer(f0))]

\* One iteration of the loop of "Update AABB overlap flags for frames" on
\* acc = [frames, topmost_touched_frame, no_movement_and_found_player_frame].
\* A faulty iteration that notes the player's frame before testing the
\* corners of that same frame.
UpdateAABBOneFoundFirst(acc, i, movement_started, pos) ==
    LET f0 == acc.frames[i]
        under0 == IF ~movement_started THEN FALSE ELSE f0.player_is_under_this_frame
        overlap == CornerInRect(f0, pos)
        found == acc.no_movement_and_found_player_frame
                     \/ (~movement_started /\ SpawnsPlayer(f0))
        under1 == IF overlap /\ found THEN TRUE ELSE under0
        under2 == IF ~overlap THEN FALSE ELSE under1
    IN  [frames |-> [acc.frames EXCEPT ![i].aabb_overlaps_player = overlap,
                                       ![i].player_is_under_this_frame = under2],
         topmost_touched_frame |->
             IF overlap /\ ~under0 THEN i ELSE acc.topmost_touched_frame,
         no_movement_and_found_player_frame |-> found]

UpdateAABBOne(acc, i, movement_started, pos) ==
    LET f0 == acc.frames[i]
        under0 == IF ~movement_started THEN FALSE ELSE f0.player_is_under_this_frame
        overlap == CornerInRect(f0, pos)
        under1 == IF overlap /\ acc.no_movement_and_found_player_frame THEN TRUE ELSE under0
        under2 == IF ~overlap THEN FALSE ELSE under1
    IN  [frames |-> [acc.frames EXCEPT ![i].aabb_overlaps_player = overlap,
                                       ![i].player_is_under_this_frame = under2],
         topmost_touched_frame |->
             IF overlap /\ ~under0 THEN i ELSE acc.topmost_touched_frame,
         no_movement_and_found_player_frame |->
             acc.no_movement_and_found_player_frame
                 \/ (~movement_started /\ SpawnsPlayer(f0))]

RECURSIVE UpdateAABBLoop(_, _, _, _)
UpdateAABBLoop(acc, i, movement_started, pos) ==
    IF i > Len(acc.frames) THEN acc
    ELSE Bind(UpdateAABBOne(acc, i, movement_started, pos),
              LAMBDA a : UpdateAABBLoop(a, i + 1, movement_started, pos))

\* "Update AABB overlap flags for frames": sets the flags and leaves
\* topmost_touched_frame in .topmost_touched_frame.
UpdateAABBFlags(w) ==
    Bind(UpdateAABBLoop([frames |-> w.frames, topmost_touched_frame |-> NoIndex,
                         no_movement_and_found_player_frame |-> FALSE],
                        1, w.movement_started, w.player.pos),
         LAMBDA r : [w EXCEPT !.frames = r.frames,
                              !.topmost_touched_frame = r.topmost_touched_frame])

\* ------------------------------------------------------------------------
\* Player to frame entity interactions
\* ------------------------------------------------------------------------

\* A faulty choice of the interaction frame that does not skip flagged frames.
InteractionFrameIgnoringFlags(w) ==
    LET c == { i \in 1 .. Len(w.frames) : WorldPixelIsInRect(w.frames[i], w.player.pos) }
    IN  IF c = {} THEN NoIndex ELSE CHOOSE i \in c : \A j \in c : j <= i

\* The frame the interaction loop stops at: scanning from the last frame, the
\* first that is not flagged and whose rectangle holds player.pos.
InteractionFrame(w) ==
    LET c == { i \in 1 .. Len(w.frames) :
                 /\ ~w.frames[i].player_is_under_this_frame
                 /\ WorldPixelIsInRect(w.frames[i], w.player.pos) }
    IN  IF c = {} THEN NoIndex ELSE CHOOSE i \in c : \A j \in c : j <= i

WithinHitbox(a, b, size) == Abs(a.x - b.x) < size /\ Abs(a.y - b.y) < size

\* A faulty exit check that does not read the remaining-keys counter.
ExitCheckIgnoringKeys(w, i) ==
    LET f == w.frames[i] IN
    IF /\ f.exit_pos # <<>>
       /\ WithinHitbox(vadd(f.pos, f.exit_pos[1]), w.player.pos, exit_hitbox_size)
    THEN [w EXCEPT !.frames[i].exit_pos = <<>>,
                   !.player.exists = FALSE,
                   !.winning_fade_out = TRUE,
                   !.ev = @ \cup {"win"}]
    ELSE w

\* "Exit?" for frame i.
ExitCheck(w, i) ==
    LET f == w.frames[i] IN
    IF /\ f.exit_pos # <<>>
       /\ w.num_remaining_keys = 0
       /\ WithinHitbox(vadd(f.pos, f.exit_pos[1]), w.player.pos, exit_hitbox_size)
    THEN [w EXCEPT !.frames[i].exit_pos = <<>>,
                   !.player.exists = FALSE,
                   !.winning_fade_out = TRUE,
                   !.ev = @ \cup {"win"}]
    ELSE w

\* The key offsets of frame f that the player at pos does not reach.
RECURSIVE KeysLeft(_, _, _)
KeysLeft(keys_seq, fpos, pos) ==
    IF keys_seq = <<>> THEN <<>>
    ELSE IF WithinHitbox(vadd(fpos, Head(keys_seq)), pos, key_hitbox_size)
         THEN KeysLeft(Tail(keys_seq), fpos, pos)
         ELSE <<Head(keys_seq)>> \o KeysLeft(Tail(keys_seq), fpos, pos)

\* A key check that looks at the keys of every frame.
KeyCheckAllFrames(w, i) ==
    [w EXCEPT !.frames = [j \in 1 .. Len(w.frames) |->
                            [w.frames[j] EXCEPT !.key_positions =
                                KeysLeft(@, w.frames[j].pos, w.player.pos)]]]

\* "Keys?" for frame i.
KeyCheck(w, i) ==
    LET f    == w.frames[i]
        left == KeysLeft(f.key_positions, f.pos, w.player.pos)
    IN  IF left = f.key_positions THEN w
        ELSE [w EXCEPT !.frames[i].key_positions = left,
                       !.ev = @ \cup {"key_collected"}]

\* "Player to frame entity interactions".  The counter read by the exit check
\* is the one the previous tick's count left.
Interactions(w) ==
    IF w.movement_started /\ w.player.exists /\ InteractionFrame(w) # NoIndex
    THEN Bind(InteractionFrame(w),
              LAMBDA i :
                  Bind([ExitCheck(w, i) EXCEPT !.exit_checked = TRUE,
                           !.keys_at_exit_check =
                               Cardinality({j \in 1 .. Len(w.frames) :
                                               w.frames[j].key_positions # <<>>})],
                       LAMBDA a : KeyCheck(a, i)))
    ELSE w

\* "Check if all keys are collected": the number of frames with a key left.
CountKeys(w) ==
    [w EXCEPT !.num_remaining_keys =
        Cardinality({i \in 1 .. Len(w.frames) : w.frames[i].key_positions # <<>>})]

\* ------------------------------------------------------------------------
\* Collision resolver
\* ------------------------------------------------------------------------

\* A faulty scan that goes on to lower frames when a frame's tile is not solid.
RECURSIVE ConsultedFramePastEmpty(_, _, _, _)
ConsultedFramePastEmpty(fs, i, px, py) ==
    IF i = 0 THEN NoIndex
    ELSE IF ~fs[i].player_is_under_this_frame /\ QueryWorldPixel(fs[i], px, py) = 1
         THEN i
         ELSE ConsultedFramePastEmpty(fs, i - 1, px, py)

\* The scan "while (i-- > 0)" for one sample point (px, py), from frame i down:
\* the first frame that is not flagged and whose query is not -1 is the only
\* one consulted (found_aabb_overlap stops the scan there).
RECURSIVE ConsultedFrame(_, _, _, _)
ConsultedFrame(fs, i, px, py) ==
    IF i = 0 THEN NoIndex
    ELSE IF ~fs[i].player_is_under_this_frame /\ QueryWorldPixel(fs[i], px, py) >= 0
         THEN i
         ELSE ConsultedFrame(fs, i - 1, px, py)

\* A faulty rule that flags the frames listed below the touched one.
SolidHitBelow(acc, i) ==
    IF /\ ~acc.frames[i].aabb_overlaps_player
       /\ acc.topmost_touched_frame # NoIndex
       /\ acc.topmost_touched_frame > i
       /\ acc.update_frames
    THEN [acc EXCEPT !.frames[i].player_is_under_this_frame = TRUE]
    ELSE [acc EXCEPT !.ret = TRUE]

\* What the consulted frame i does to acc = [frames, ret, ...] when it reports
\* 1 at the sample point: it is flagged, or the query reports blocked.
SolidHit(acc, i) ==
    IF /\ ~acc.frames[i].aabb_overlaps_player
       /\ acc.topmost_touched_frame # NoIndex
       /\ acc.topmost_touched_frame < i
       /\ acc.update_frames
    THEN [acc EXCEPT !.frames[i].player_is_under_this_frame = TRUE]
    ELSE [acc EXCEPT !.ret = TRUE]

\* The body of "for (ivec2 point : player_hitbox_full)" for point number acc.p.
SolidAtConsulted(acc, i, px, py) ==
    IF i = NoIndex THEN acc
    ELSE IF QueryWorldPixel(acc.frames[i], px, py) # 1 THEN acc
    ELSE SolidHit(acc, i)

SolidAtPixel(acc, px, py) ==
    SolidAtConsulted(acc, ConsultedFrame(acc.frames, Len(acc.frames), px, py), px, py)

SolidAtPoint(acc) ==
    SolidAtPixel(acc, acc.base.x + player_hitbox_full[acc.p].x,
                      acc.base.y + player_hitbox_full[acc.p].y)

RECURSIVE SolidAtPoints(_)
SolidAtPoints(acc) ==
    IF acc.p > Len(player_hitbox_full) THEN acc
    ELSE SolidAtPoints([SolidAtPoint(acc) EXCEPT !.p = @ + 1])

\* The lambda SolidAtOffset: returns a record whose .ret is the answer and whose
\* .frames carry the flags the query set.
SolidAtOffset(frames_in, pos, topmost_touched_frame, offset, update_frames) ==
    Bind([frames |-> frames_in, ret |-> FALSE, p |-> 1, base |-> vadd(pos, offset),
          topmost_touched_frame |-> topmost_touched_frame,
          update_frames |-> update_frames],
         LAMBDA a : SolidAtPoints(a))

\* ------------------------------------------------------------------------
\* Player physics
\* ------------------------------------------------------------------------

\* Horizontal control that does not consult the tutorial flag.
HorizontalControlUngated(w, k) ==
    LET hc == (IF k.right.is_down THEN 1 ELSE 0) - (IF k.left.is_down THEN 1 ELSE 0)
        vx == w.player.vel.x
    IN  IF hc # 0
        THEN LET v1 == vx + hc * walk_acc
                 v2 == IF Abs(v1) > walk_speed
                       THEN (IF v1 > 0 THEN walk_speed ELSE -walk_speed) ELSE v1
             IN  [w EXCEPT !.movement_started = TRUE,
                           !.player.facing_left = (hc < 0),
                           !.player.vel.x = v2]
        ELSE w

\* "Horizontal control".
\* Horizontal control whose deceleration does not stop at zero.
HorizontalControlOvershooting(w, k) ==
    LET hc0 == (IF k.right.is_down THEN 1 ELSE 0) - (IF k.left.is_down THEN 1 ELSE 0)
        hc  == IF ~w.dragged_at_least_once THEN 0 ELSE hc0
        vx  == w.player.vel.x
    IN  IF hc # 0
        THEN LET v1 == vx + hc * walk_acc
                 v2 == IF Abs(v1) > walk_speed
                       THEN (IF v1 > 0 THEN walk_speed ELSE -walk_speed) ELSE v1
             IN  [w EXCEPT !.movement_started = TRUE,
                           !.ev = IF w.movement_started THEN @ ELSE @ \cup {"start_moving"},
                           !.player.facing_left = (hc < 0),
                           !.player.vel.x = v2]
        ELSE LET flip == vx < 0
                 a    == IF flip THEN -vx ELSE vx
                 b    == IF a > 0 THEN a - walk_dec ELSE 0
             IN  [w EXCEPT !.player.vel.x = IF flip THEN -b ELSE b]

HorizontalControl(w, k) ==
    LET hc0 == (IF k.right.is_down THEN 1 ELSE 0) - (IF k.left.is_down THEN 1 ELSE 0)
        hc  == IF ~w.dragged_at_least_once THEN 0 ELSE hc0
        vx  == w.player.vel.x
    IN  IF hc # 0
        THEN LET v1 == vx + hc * walk_acc
                 v2 == IF Abs(v1) > walk_speed
                       THEN (IF v1 > 0 THEN walk_speed ELSE -walk_speed) ELSE v1
             IN  [w EXCEPT !.movement_started = TRUE,
                           !.ev = IF w.movement_started THEN @ ELSE @ \cup {"start_moving"},
                           !.player.facing_left = (hc < 0),
                           !.player.vel.x = v2]
        ELSE LET flip == vx < 0
                 a    == IF flip THEN -vx ELSE vx
                 b    == IF a > walk_dec THEN a - walk_dec ELSE 0
             IN  [w EXCEPT !.player.vel.x = IF flip THEN -b ELSE b]

\* A grounded probe that emits the landing event on every grounded tick.
GroundCheckEveryTick(w) ==
    Bind(SolidAtOffset(w.frames, w.player.pos, w.topmost_touched_frame, vec(0, 1), FALSE),
         LAMBDA r :
             [w EXCEPT !.frames = r.frames,
                       !.player.on_ground_prev = w.player.on_ground,
                       !.player.on_ground = r.ret,
                       !.ev = IF r.ret /\ w.movement_started
                              THEN @ \cup {"landing"} ELSE @])

\* The grounded probe and the landing event.
\* A faulty probe that lets its query set flags.
GroundCheckUpdatingFrames(w) ==
    Bind(SolidAtOffset(w.frames, w.player.pos, w.topmost_touched_frame, vec(0, 1), TRUE),
         LAMBDA r :
             [w EXCEPT !.frames = r.frames,
                       !.player.on_ground_prev = w.player.on_ground,
                       !.player.on_ground = r.ret,
                       !.ev = IF r.ret /\ ~w.player.on_ground /\ w.movement_started
                              THEN @ \cup {"landing"} ELSE @])

GroundCheck(w) ==
    Bind(SolidAtOffset(w.frames, w.player.pos, w.topmost_touched_frame, vec(0, 1), FALSE),
         LAMBDA r :
             [w EXCEPT !.frames = r.frames,
                       !.player.on_ground_prev = w.player.on_ground,
                       !.player.on_ground = r.ret,
                       !.ev = IF r.ret /\ ~w.player.on_ground /\ w.movement_started
                              THEN @ \cup {"landing"} ELSE @])

\* A jumping block that keeps the holding-jump flag while airborne.
JumpingKeepingHold(w, k) ==
    IF w.player.on_ground
    THEN IF IsPressed(k.jump) /\ w.dragged_at_least_once
         THEN [w EXCEPT !.movement_started = TRUE,
                        !.player.holding_jump = TRUE,
                        !.player.vel.y = -jump_speed,
                        !.player.vel_comp.y = 0,
                        !.ev = @ \cup {"jump"}]
         ELSE IF w.player.vel.y > 0
              THEN [w EXCEPT !.player.holding_jump = FALSE,
                             !.player.vel.y = 0,
                             !.player.vel_comp.y =
                                 IF w.player.vel_comp.y > 0 THEN 0 ELSE w.player.vel_comp.y]
              ELSE [w EXCEPT !.player.holding_jump = FALSE]
    ELSE w

\* "Jumping".
Jumping(w, k) ==
    IF w.player.on_ground
    THEN IF IsPressed(k.jump) /\ w.dragged_at_least_once
         THEN [w EXCEPT !.movement_started = TRUE,
                        !.player.holding_jump = TRUE,
                        !.player.vel.y = -jump_speed,
                        !.player.vel_comp.y = 0,
                        !.ev = @ \cup {"jump"}]
         ELSE IF w.player.vel.y > 0
              THEN [w EXCEPT !.player.holding_jump = FALSE,
                             !.player.vel.y = 0,
                             !.player.vel_comp.y =
                                 IF w.player.vel_comp.y > 0 THEN 0 ELSE w.player.vel_comp.y]
              ELSE [w EXCEPT !.player.holding_jump = FALSE]
    ELSE IF ~k.jump.is_down \/ w.player.vel.y > 0
         THEN [w EXCEPT !.player.holding_jump = FALSE]
         ELSE w

\* Gravity, applied only once movement has started.
Gravity(w) ==
    IF w.movement_started
    THEN LET v == w.player.vel.y + (IF w.player.holding_jump THEN gravity ELSE gravity_lowjump)
         IN  [w EXCEPT !.player.vel.y = IF v > max_fall_speed THEN max_fall_speed ELSE v]
    ELSE w

\* vel_comp *= 0.98f on a fixed-point value (the product truncated).
Damp(c) == CDiv(c * comp_damp_percent, 100)

Sign(a) == IF a > 0 THEN 1 ELSE -1

\* A faulty outcome that zeroes the velocity of a blocked axis whatever its
\* sign.
SweepOutcomeAlwaysZeroing(st, vert, iv, offset, r) ==
    IF r.ret
    THEN IF vert
         THEN [st EXCEPT !.frames = r.frames, !.vel.y = 0, !.vel_comp.y = 0, !.int_vel.y = 0]
         ELSE [st EXCEPT !.frames = r.frames, !.vel.x = 0, !.vel_comp.x = 0, !.int_vel.x = 0]
    ELSE [st EXCEPT !.frames = r.frames,
                    !.int_vel = vsub(st.int_vel, offset),
                    !.pos = vadd(st.pos, offset),
                    !.moved_x = st.moved_x \/ ~vert,
                    !.steps = Append(@, offset)]

\* The outcome of one sweep attempt, given the answer r of the collision query:
\* blocked zeroes the axis, free commits one pixel.
SweepOutcome(st, vert, iv, offset, r) ==
    LET v == IF vert THEN st.vel.y ELSE st.vel.x
        c == IF vert THEN st.vel_comp.y ELSE st.vel_comp.x
    IN  IF r.ret
        THEN LET nv == IF iv * v > 0 THEN 0 ELSE v
                 nc == IF iv * v > 0 /\ iv * c > 0 THEN 0 ELSE c
             IN  IF vert
                 THEN [st EXCEPT !.frames = r.frames, !.vel.y = nv, !.vel_comp.y = nc,
                                 !.int_vel.y = 0]
                 ELSE [st EXCEPT !.frames = r.frames, !.vel.x = nv, !.vel_comp.x = nc,
                                 !.int_vel.x = 0]
        ELSE [st EXCEPT !.frames = r.frames,
                        !.int_vel = vsub(st.int_vel, offset),
                        !.pos = vadd(st.pos, offset),
                        !.moved_x = st.moved_x \/ ~vert,
                        !.steps = Append(@, offset)]

\* One pass of the body of "for (bool vert : {false, true})" on
\* st = [frames, pos, int_vel, vel, vel_comp, moved_x, steps].
SweepAxis(st, vert, topmost_touched_frame) ==
    LET iv == IF vert THEN st.int_vel.y ELSE st.int_vel.x
        offset == IF vert THEN vec(0, Sign(iv)) ELSE vec(Sign(iv), 0)
    IN  IF iv = 0 THEN st
        ELSE Bind(SolidAtOffset(st.frames, st.pos, topmost_touched_frame, offset, TRUE),
                  LAMBDA r : SweepOutcome(st, vert, iv, offset, r))

\* "while (int_vel != ivec2())".
RECURSIVE SweepLoop(_, _)
SweepLoop(st, topmost_touched_frame) ==
    IF st.int_vel = vec(0, 0) THEN st
    ELSE Bind(SweepAxis(st, FALSE, topmost_touched_frame),
              LAMBDA a : Bind(SweepAxis(a, TRUE, topmost_touched_frame),
                              LAMBDA b : SweepLoop(b, topmost_touched_frame)))

\* The integer step of this tick: round(vel + vel_comp).
IntVel(pl) == vec(Round(pl.vel.x + pl.vel_comp.x), Round(pl.vel.y + pl.vel_comp.y))

\* The remainder kept for the next tick.
NextVelComp(pl) ==
    LET iv == IntVel(pl)
    IN  vec(Damp(pl.vel.x + pl.vel_comp.x - iv.x * FP),
            Damp(pl.vel.y + pl.vel_comp.y - iv.y * FP))

\* The one-pixel sweep for the requested step int_vel.
Sweep(w, int_vel) ==
    Bind(SweepLoop([frames |-> w.frames, pos |-> w.player.pos, int_vel |-> int_vel,
                    vel |-> w.player.vel, vel_comp |-> w.player.vel_comp,
                    moved_x |-> FALSE, steps |-> <<>>],
                   w.topmost_touched_frame),
         LAMBDA st :
             [w EXCEPT !.frames = st.frames,
                       !.player.pos = st.pos,
                       !.player.vel = st.vel,
                       !.player.vel_comp = st.vel_comp,
                       !.player.movement_timer = IF st.moved_x THEN @ + 1 ELSE 0,
                       !.sweep = [ran |-> TRUE, from |-> w.player.pos, int_vel |-> int_vel,
                                  steps |-> st.steps]])

\* "Update position".
UpdatePosition(w) ==
    Bind([w EXCEPT !.player.vel_comp = NextVelComp(w.player)],
         LAMBDA a : Sweep(a, IntVel(w.player)))

\* The "Player" block.
PlayerPhysics(w, k) ==
    IF w.player.exists
    THEN Bind(HorizontalControl(w, k), LAMBDA a :
         Bind(GroundCheck(a), LAMBDA b :
         Bind(Jumping(b, k), LAMBDA c :
         Bind(Gravity(c), LAMBDA d : UpdatePosition(d)))))
    ELSE w

\* ------------------------------------------------------------------------
\* Death, restart, level switch, fade
\* ------------------------------------------------------------------------

OutOfBounds(pos) ==
    \/ pos.x <= -CDiv(screen_size_x, 2)
    \/ pos.x > CDiv(screen_size_x, 2)
    \/ pos.y > CDiv(screen_size_y, 2)

\* Death conditions that only look at the sides of the screen.
DeathConditionsSideways(w) ==
    IF /\ w.player.exists
       /\ \/ w.player.pos.x <= -CDiv(screen_size_x, 2)
          \/ w.player.pos.x > CDiv(screen_size_x, 2)
    THEN [w EXCEPT !.player.exists = FALSE]
    ELSE w

\* "Player death conditions".
\* Death conditions that also kill above the top of the screen.
DeathConditionsWithTop(w) ==
    IF w.player.exists
       /\ (OutOfBounds(w.player.pos) \/ w.player.pos.y < -CDiv(screen_size_y, 2))
    THEN [w EXCEPT !.player.exists = FALSE]
    ELSE w

DeathConditions(w) ==
    IF w.player.exists /\ OutOfBounds(w.player.pos)
    THEN [w EXCEPT !.player.exists = FALSE]
    ELSE w

\* "Player death": the death event, then exists_prev = exists.
\* A death block that does not look at exists_prev.
PlayerDeathWhileAbsent(w) ==
    [w EXCEPT !.ev = IF ~w.player.exists /\ ~w.winning_fade_out
                     THEN @ \cup {"death"} ELSE @,
              !.player.exists_prev = w.player.exists]

PlayerDeath(w) ==
    [w EXCEPT !.ev = IF ~w.player.exists /\ w.player.exists_prev /\ ~w.winning_fade_out
                     THEN @ \cup {"death"} ELSE @,
              !.player.exists_prev = w.player.exists]

\* A faulty end of Dying/Winning that acts one tick early (>= for >).
RestartOrAdvanceOneTickEarly(w) ==
    IF ~w.player.exists
    THEN LET t == w.player.death_timer + 1 IN
         IF t >= death_delay
         THEN IF w.winning_fade_out
              THEN IF w.current_level_index + 1 >= Len(levels)
                   THEN [w EXCEPT !.player.death_timer = t,
                                  !.current_level_index = @ + 1,
                                  !.terminated = TRUE]
                   ELSE Bind([w EXCEPT !.current_level_index = @ + 1,
                                       !.ev = @ \cup {"load"}],
                             LAMBDA a : LoadLevelData(a))
              ELSE Bind([w EXCEPT !.ev = @ \cup {"respawn"}],
                        LAMBDA a : RestartLevel(a))
         ELSE [w EXCEPT !.player.death_timer = t]
    ELSE w

\* "Restarting on death. Also switching to the next level on win."
RestartOrAdvance(w) ==
    IF ~w.player.exists
    THEN LET t == w.player.death_timer + 1 IN
         IF t > death_delay
         THEN IF w.winning_fade_out
              THEN IF w.current_level_index + 1 >= Len(levels)
                   THEN [w EXCEPT !.player.death_timer = t,
                                  !.current_level_index = @ + 1,
                                  !.terminated = TRUE]
                   ELSE Bind([w EXCEPT !.current_level_index = @ + 1,
                                       !.ev = @ \cup {"load"}],
                             LAMBDA a : LoadLevelData(a))
              ELSE Bind([w EXCEPT !.ev = @ \cup {"respawn"}],
                        LAMBDA a : RestartLevel(a))
         ELSE [w EXCEPT !.player.death_timer = t]
    ELSE w

\* "Fade".
Fade(w) ==
    IF w.winning_fade_out
    THEN [w EXCEPT !.fade = IF @ + fade_step > FP THEN FP ELSE @ + fade_step]
    ELSE [w EXCEPT !.fade = IF @ - fade_step < 0 THEN 0 ELSE @ - fade_step]

\* ------------------------------------------------------------------------
\* The tick
\* ------------------------------------------------------------------------

\* What a tick records of its own course, reset at the start of each tick.
NoSweep ==
    [ran |-> FALSE, from |-> vec(0, 0), int_vel |-> vec(0, 0), steps |-> <<>>]

UnderFlags(fs) == [i \in 1 .. Len(fs) |-> fs[i].player_is_under_this_frame]

\* The blocks of World::State::Tick up to and including the occlusion pass.
TickToOcclusion(w, m, k) ==
    Bind(ResetButton(w, m, k), LAMBDA a :
    Bind(ClickKill(a, m), LAMBDA w1 :
    Bind(HoveredFrameIndex(w1, m), LAMBDA h :
    Bind(ResolveHover(w1, m), LAMBDA b :
    Bind(Dragging(b, m, h, \E i \in 1 .. Len(w1.frames) : w1.frames[i].dragged), LAMBDA w2 :
    Bind(UpdateAABBFlags(w2), LAMBDA w3 :
        [w3 EXCEPT !.under_before_pass = UnderFlags(w2.frames),
                   !.under_after_pass = UnderFlags(w3.frames),
                   !.drag_started = IsPressed(m) /\ h # NoIndex /\ ~w1.winning_fade_out,
                   !.hovered_frame_index = h]))))))

\* The rest of World::State::Tick; an exit(0) ends the tick where it is called.
TickFromOcclusion(w, k) ==
    Bind(Interactions([w EXCEPT !.pos_at_interactions = w.player.pos]), LAMBDA a :
    Bind(CountKeys(a), LAMBDA b :
    Bind(PlayerPhysics(b, k), LAMBDA c :
    Bind(DeathConditions(c), LAMBDA d :
    Bind(PlayerDeath(d), LAMBDA e :
    Bind(RestartOrAdvance(e), LAMBDA f :
        IF f.terminated THEN f ELSE Fade([f EXCEPT !.fade_before_step = f.fade])))))))

StateTick(w, m, k) ==
    Bind([w EXCEPT !.ev = {}, !.sweep = NoSweep, !.exit_checked = FALSE,
                   !.keys_at_exit_check = 0, !.fade_before_step = w.fade],
         LAMBDA a : Bind(TickToOcclusion(a, m, k), LAMBDA b : TickFromOcclusion(b, k)))

\* ------------------------------------------------------------------------
\* State
\* ------------------------------------------------------------------------

VARIABLES
    frames,                 \* World::State::frames, the z-ordered frame list
    current_level_index,    \* 0-based, as in the source
    fade,
    winning_fade_out,
    player,
    movement_started,
    num_remaining_keys,
    reset_button_hovered,
    mouse,                  \* the static Mouse
    keys,                   \* the static Keys
    dragged_at_least_once,  \* tut.dragged_at_least_once
    content_error,          \* InitEntityFromSpecificFrame threw
    terminated,             \* std::exit(0) was called
    obs,                    \* what the last tick recorded of its own course, and
                            \* whether a drag has ever ended
    stage,                  \* the stage of the input plan
    used                    \* ticks spent in the stage

vars == << frames, current_level_index, fade, winning_fade_out, player,
           movement_started, num_remaining_keys, reset_button_hovered, mouse, keys,
           dragged_at_least_once, content_error, terminated, obs, stage, used >>

\* The session as one record, the form the block operators work on.
Session ==
    [frames |-> frames, current_level_index |-> current_level_index, fade |-> fade,
     winning_fade_out |-> winning_fade_out, player |-> player,
     movement_started |-> movement_started, num_remaining_keys |-> num_remaining_keys,
     reset_button_hovered |-> reset_button_hovered,
     dragged_at_least_once |-> dragged_at_least_once,
     content_error |-> content_error, terminated |-> terminated,
     ev |-> obs.ev, sweep |-> obs.sweep, exit_checked |-> obs.exit_checked,
     keys_at_exit_check |-> obs.keys_at_exit_check,
     under_before_pass |-> obs.under_before_pass,
     under_after_pass |-> obs.under_after_pass, drag_started |-> obs.drag_started,
     hovered_frame_index |-> obs.hovered_frame_index,
     topmost_touched_frame |-> obs.topmost_touched_frame,
     fade_before_step |-> obs.fade_before_step,
     drag_ended_once |-> obs.drag_ended_once,
     pos_at_interactions |-> obs.pos_at_interactions,
     any_dragged |-> FALSE]

ObsOf(w) ==
    [ev |-> w.ev, sweep |-> w.sweep, exit_checked |-> w.exit_checked,
     keys_at_exit_check |-> w.keys_at_exit_check,
     under_before_pass |-> w.under_before_pass,
     under_after_pass |-> w.under_after_pass, drag_started |-> w.drag_started,
     hovered_frame_index |-> w.hovered_frame_index,
     topmost_touched_frame |-> w.topmost_touched_frame,
     fade_before_step |-> w.fade_before_step,
     drag_ended_once |-> w.drag_ended_once,
     pos_at_interactions |-> w.pos_at_interactions]

NoObs ==
    [ev |-> {}, sweep |-> NoSweep, exit_checked |-> FALSE, keys_at_exit_check |-> 0,
     under_before_pass |-> <<>>, under_after_pass |-> <<>>, drag_started |-> FALSE,
     hovered_frame_index |-> NoIndex, topmost_touched_frame |-> NoIndex,
     fade_before_step |-> FP, drag_ended_once |-> FALSE, pos_at_interactions |-> vec(0, 0)]

KeyUp == [is_down |-> FALSE, is_down_prev |-> FALSE]

\* World::State::State() for level index idx: the member initialisers, then
\* LoadLevelData.
Constructed(idx) ==
    Bind(
        [frames |-> <<>>, current_level_index |-> idx, fade |-> FP,
         winning_fade_out |-> FALSE, player |-> DefaultPlayer,
         movement_started |-> FALSE, num_remaining_keys |-> 0,
         reset_button_hovered |-> FALSE, dragged_at_least_once |-> FALSE,
         content_error |-> FALSE, terminated |-> FALSE,
         ev |-> {}, sweep |-> NoSweep, exit_checked |-> FALSE, keys_at_exit_check |-> 0,
         under_before_pass |-> <<>>, under_after_pass |-> <<>>, drag_started |-> FALSE,
         hovered_frame_index |-> NoIndex, topmost_touched_frame |-> NoIndex,
         fade_before_step |-> FP, drag_ended_once |-> FALSE,
         pos_at_interactions |-> vec(0, 0), any_dragged |-> FALSE],
        LAMBDA w : LoadLevelData(w))

\* ------------------------------------------------------------------------
\* The tick as an action
\* ------------------------------------------------------------------------

NoKeys == [left |-> FALSE, right |-> FALSE, jump |-> FALSE, reset |-> FALSE]

\* World::Tick for the input snapshot (mouse position mp, button md, held keys in).
Step(mp, md, in) ==
    \E m \in {ReadMouse(mouse, mp, md)}, k \in {ReadKeys(keys, in)} :
      \E w \in {StateTick(Session, m, k)} :
        /\ frames' = w.frames
        /\ current_level_index' = w.current_level_index
        /\ fade' = w.fade
        /\ winning_fade_out' = w.winning_fade_out
        /\ player' = w.player
        /\ movement_started' = w.movement_started
        /\ num_remaining_keys' = w.num_remaining_keys
        /\ reset_button_hovered' = w.reset_button_hovered
        /\ dragged_at_least_once' = w.dragged_at_least_once
        /\ content_error' = w.content_error
        /\ terminated' = w.terminated
        /\ mouse' = m
        /\ keys' = k
        /\ obs' = ObsOf(w)

InitSession(w) ==
    /\ frames = w.frames
    /\ current_level_index = w.current_level_index
    /\ fade = w.fade
    /\ winning_fade_out = w.winning_fade_out
    /\ player = w.player
    /\ movement_started = w.movement_started
    /\ num_remaining_keys = w.num_remaining_keys
    /\ reset_button_hovered = w.reset_button_hovered
    /\ dragged_at_least_once = w.dragged_at_least_once
    /\ content_error = w.content_error
    /\ terminated = w.terminated
    /\ obs = ObsOf(w)

\* ------------------------------------------------------------------------
\* Input plans
\* ------------------------------------------------------------------------
\* The environment feeds one input snapshot per tick.  A plan is a sequence of
\* stages; a stage offers a set of snapshots and lasts between min and max
\* ticks.

Input(mp, md, in) == [mp |-> mp, md |-> md, in |-> in]

Stage(inputs, min, max) == [inputs |-> inputs, min |-> min, max |-> max]

\* A mouse position outside every frame (frames are clamped inside the screen).
Away == vec(0, -130)

Idle == Input(Away, FALSE, NoKeys)

KeyJump == [NoKeys EXCEPT !.jump = TRUE]

KeyRight == [NoKeys EXCEPT !.right = TRUE]

KeyReset == [NoKeys EXCEPT !.reset = TRUE]

InitInputs ==
    /\ mouse = [pos |-> vec(0, 0), is_down |-> FALSE, is_down_prev |-> FALSE]
    /\ keys = [left |-> KeyUp, right |-> KeyUp, jump |-> KeyUp, reset |-> KeyUp]
    /\ stage = 1
    /\ used = 0

\* One tick under plan P: stay in the current stage or enter the next one.
Run(P) ==
    /\ ~terminated /\ ~content_error
    /\ \E s \in {stage, stage + 1} :
          /\ s <= Len(P)
          /\ IF s = stage THEN used < P[s].max ELSE used >= P[stage].min
          /\ \E i \in P[s].inputs : Step(i.mp, i.md, i.in)
          /\ stage' = s
          /\ used' = IF s = stage THEN used + 1 ELSE 1

\* The session right after LoadLevelData of level idx at the end of a won
\* level: the tutorial flag is set (and the drag that set it has ended, since
\* the player was alive after movement started), the counter is the zero the
\* win required, and the same tick's fade step has run.
Loaded(idx) ==
    Bind(Constructed(idx),
         LAMBDA w : [w EXCEPT !.dragged_at_least_once = TRUE, !.drag_ended_once = TRUE,
                              !.fade = FP - fade_step])

\* The collision query at offset zero, without flag updates.
Blocked(fs, pos) == SolidAtOffset(fs, pos, NoIndex, vec(0, 0), FALSE).ret

WithFlags(fs, flags) ==
    [i \in 1 .. Len(fs) |-> [fs[i] EXCEPT !.player_is_under_this_frame = flags[i]]]

\* ------------------------------------------------------------------------
\* Specification Spec: sessions in the first and in the last level
\* ------------------------------------------------------------------------
\* From construction, level 0 is arranged (the player's frame is dragged next
\* to the exit's frame), the player walks right, and on the decision tick
\* jumps the gap (and wins), walks on (and falls out of the world), or is
\* killed by the reset key, the reset button or a click on a frame.
\*
\* In the last level a frame is dragged beside the player's shaft, the player
\* jumps up to the exit (keys remain), lands, walks right onto a key, and is
\* killed by the reset key.
\*
\* Or the last level is solved: the clamp's corridor is put against the right
\* wall of the player's shaft, the cat's stairs at the corridor's end and the
\* hole's key cell at the foot of the stairs; the player hops the gap in the
\* corridor's floor, walks over the three keys, climbs back, hops back into
\* the shaft and jumps to the exit.
\*
\* While the player is absent every tick may hold down everything at once and
\* drag a frame away and back.

LastLevel == Len(levels) - 1

FlowerHome == vec(-50, 20)

FlowerPlace == vec(6, -20)

VortexHome == vec(70, -20)

VortexElsewhere == vec(192, 95)

CatHome == vec(120, 0)

CatPlace == vec(-32, -6)

CatStairs == vec(48, -6)

\* The cat here has its key marker on the player's spawn point.
CatOnPlayer == vec(-44, -6)

ClampHome == vec(-60, 40)

ClampPlace == vec(-8, -22)

HoleHome == vec(40, 0)

HoleElsewhere == vec(40, 79)

HolePlace == vec(76, -14)

OnResetButton == vec(220, 110)

KeysAll == [left |-> FALSE, right |-> TRUE, jump |-> TRUE, reset |-> TRUE]

Walk == Input(Away, FALSE, KeyRight)

WalkJump == Input(Away, FALSE, [KeyRight EXCEPT !.jump = TRUE])

KeyLeft == [NoKeys EXCEPT !.left = TRUE]

WalkLeft == Input(Away, FALSE, KeyLeft)

WalkLeftJump == Input(Away, FALSE, [KeyLeft EXCEPT !.jump = TRUE])

Jump == Input(Away, FALSE, KeyJump)

\* Press on a frame's centre, move the mouse, release.
Drag(from, to) ==
    << Stage({Input(from, TRUE, NoKeys)}, 1, 1),
       Stage({Input(to, TRUE, NoKeys)}, 1, 1),
       Stage({Idle}, 1, 1) >>

\* What is tried on a tick: nothing while the player exists, anything while
\* it is absent.
Disturb ==
    IF player.exists THEN {Idle}
    ELSE IF current_level_index = LastLevel
         THEN {Idle, Input(HoleHome, TRUE, KeysAll), Input(HoleElsewhere, TRUE, KeysAll)}
         ELSE {Idle, Input(VortexHome, TRUE, KeysAll), Input(VortexElsewhere, TRUE, KeysAll),
               Input(OnResetButton, TRUE, KeysAll)}

MaxWait == 76

MaxHold == 3

PlanSession ==
    Drag(FlowerHome, FlowerPlace) \o
    << Stage({Walk}, 18, 18),
       Stage({WalkJump, Walk,
              Input(Away, FALSE, [KeyRight EXCEPT !.reset = TRUE]),
              Input(OnResetButton, TRUE, KeyRight),
              Input(FlowerPlace, TRUE, KeyRight),
              Input(Away, TRUE, KeyRight)}, 1, 1),
       Stage({Walk, Input(FlowerPlace, TRUE, KeyRight), Input(FlowerHome, TRUE, KeyRight)}, 1, 1),
       Stage({Walk}, 23, 23),
       Stage(Disturb, 1, MaxWait) >>

PlanKeys ==
    << Stage({Input(CatHome, TRUE, NoKeys), Input(ClampHome, TRUE, NoKeys)}, 1, 1),
       Stage({Input(CatPlace, TRUE, NoKeys), Input(CatOnPlayer, TRUE, NoKeys)}, 1, 1),
       Stage({Idle}, 1, 1),
       Stage({Jump}, 1, MaxHold),
       Stage({Idle}, 26, 26),
       Stage({Walk}, 14, 14),
       Stage({Input(Away, FALSE, KeyReset)}, 1, 1),
       Stage({Idle, Input(CatPlace, TRUE, NoKeys)}, 1, 1),
       Stage({Idle, Input(HoleElsewhere, TRUE, NoKeys)}, 1, 1),
       Stage(Disturb, 1, MaxWait) >>

\* The solution of the last level.
PlanFinish ==
    Drag(ClampHome, ClampPlace) \o
    Drag(HoleHome, HolePlace) \o
    Drag(CatHome, CatStairs) \o
    << Stage({Walk}, 6, 6),
       Stage({WalkJump}, 6, 6),
       Stage({Walk}, 80, 80),
       Stage({Idle}, 1, 1),
       Stage({WalkLeftJump}, 1, 1),
       Stage({WalkLeft}, 17, 17),
       Stage({WalkLeftJump}, 17, 17),
       Stage({WalkLeft}, 49, 49),
       Stage({WalkLeftJump}, 8, 8),
       Stage({WalkLeft}, 3, 3),
       Stage({Jump}, 1, MaxHold),
       Stage(Disturb, 1, MaxWait) >>

\* The first press of a session in the last level picked the clamp.
ClampPicked ==
    \E i \in DOMAIN frames :
        /\ frames[i].type = "clamp"
        /\ frames[i].dragged \/ frames[i].pos # ClampHome

\* The plan of a session is fixed by the level it starts in and, in the last
\* level, by the frame its first press picks: the first session ends in
\* level 1 at the latest, the others stay in the last level or finish it.
Plan ==
    IF current_level_index # LastLevel THEN PlanSession
    ELSE IF ClampPicked THEN PlanFinish ELSE PlanKeys

Init ==
    /\ \/ InitSession(Constructed(0))
       \/ InitSession(Loaded(LastLevel))
    /\ InitInputs

Tick == Run(Plan)

Next == Tick

Spec == Init /\ [][Next]_vars

\* ------------------------------------------------------------------------
\* Vocabulary of the properties
\* ------------------------------------------------------------------------

Editing == ~movement_started /\ player.exists

Moving == movement_started /\ player.exists

Dying == ~player.exists /\ ~winning_fade_out

Winning == ~player.exists /\ winning_fade_out

\* The tick that is starting finds the timer past its threshold.
TimerExpires == player.death_timer + 1 > death_delay

TypesOf(fs) == [i \in 1 .. Len(fs) |-> fs[i].type]

PositionsOf(fs) == [i \in 1 .. Len(fs) |-> fs[i].pos]

StaticTypes(idx) == [i \in 1 .. Len(levels[idx + 1]) |-> levels[idx + 1][i].type]

StaticPositions(idx) == [i \in 1 .. Len(levels[idx + 1]) |-> levels[idx + 1][i].pos]

\* The world position of the marker of the k-th entity of frame f.
EntityPoint(f, k) == vadd(f.pos, MarkerOffset(f, FirstMarkerCell(f.type, MarkerChars[k])))

\* The (frame, entity number) pairs of the frames fs that request `kind`.
EntitySlots(fs, kind) ==
    { ik \in (1 .. Len(fs)) \X (1 .. Len(MarkerChars)) :
        /\ ik[2] <= Len(fs[ik[1]].spawned_entity_types)
        /\ fs[ik[1]].spawned_entity_types[ik[2]] = kind }

\* The world positions of the player markers of the frames fs.
SpawnPoints(fs) == { EntityPoint(fs[ik[1]], ik[2]) : ik \in EntitySlots(fs, "player") }

\* The full key list of frame f: one offset per requested key, in request order.
RECURSIVE ExpectedKeysFrom(_, _)
ExpectedKeysFrom(f, k) ==
    IF k > Len(f.spawned_entity_types) THEN <<>>
    ELSE (IF f.spawned_entity_types[k] = "key"
          THEN << MarkerOffset(f, FirstMarkerCell(f.type, MarkerChars[k])) >>
          ELSE <<>>) \o ExpectedKeysFrom(f, k + 1)

KeysRestored(fs) == \A i \in 1 .. Len(fs) : fs[i].key_positions = ExpectedKeysFrom(fs[i], 1)

\* The number of frames that still hold a key.
KeyFrames(fs) == Cardinality({ i \in 1 .. Len(fs) : fs[i].key_positions # <<>> })

\* Some frame's exit lies within the exit distance of pos.
NearExit(fs, pos) ==
    \E i \in 1 .. Len(fs) :
        /\ fs[i].exit_pos # <<>>
        /\ Abs(fs[i].pos.x + fs[i].exit_pos[1].x - pos.x) < exit_hitbox_size
        /\ Abs(fs[i].pos.y + fs[i].exit_pos[1].y - pos.y) < exit_hitbox_size

\* ------------------------------------------------------------------------
\* C4
\* ------------------------------------------------------------------------

\* C4: a tick sets the winning flag only if no frame held a key when the exit
\* check ran, and whenever movement has started the remaining-keys counter
\* equals the number of frames that hold a key (it is never a stale value
\* left by a level switch or a restart).
C4_WinNeedsAllKeys ==
    /\ "win" \in obs.ev => obs.keys_at_exit_check = 0
    /\ movement_started => num_remaining_keys = KeyFrames(frames)

\* The exit check ran with the player at an exit while keys remained, and the
\* session did not win.
C4_AtExitWithKeysLeft ==
    /\ obs.exit_checked /\ obs.sweep.ran
    /\ obs.keys_at_exit_check > 0
    /\ NearExit(frames, obs.sweep.from)
    /\ ~winning_fade_out

\* ------------------------------------------------------------------------
\* C7
\* ------------------------------------------------------------------------

\* The three causes of death, read off the tick's input and outcome.
ResetIssued == IsPressed(keys'.reset) \/ (MouseOnResetButton(mouse') /\ IsPressed(mouse'))

FrameClicked ==
    IsPressed(mouse') /\ \E i \in 1 .. Len(frames) : WorldPixelIsInRect(frames[i], mouse'.pos)

LeftBounds == OutOfBounds(player'.pos)

\* C7: a tick moves the session only Editing -> Moving, Moving -> Dying,
\* Moving -> Winning, Dying -> Editing in the same level, Winning -> Editing
\* in the next level, or Winning -> terminated; Moving -> Dying only in a tick
\* where the player left the bounds, a reset was issued or a frame was clicked.
C7_SessionTransitions ==
    [][ /\ terminated' => Winning
        /\ ~terminated' =>
             /\ Editing => Editing' \/ Moving'
             /\ Moving => Moving' \/ Dying' \/ Winning'
             /\ Dying => Dying' \/ (Editing' /\ current_level_index' = current_level_index)
             /\ Winning => Winning' \/ (Editing' /\ current_level_index' = current_level_index + 1)
        /\ Moving /\ Dying' => ResetIssued \/ FrameClicked \/ LeftBounds ]_vars

\* A player killed by a click on a frame.
C7_KilledByClick ==
    /\ "death" \in obs.ev
    /\ IsPressed(mouse) /\ ~MouseOnResetButton(mouse) /\ ~IsPressed(keys.reset)
    /\ ~OutOfBounds(player.pos)

\* ------------------------------------------------------------------------
\* C8
\* ------------------------------------------------------------------------

\* The frames as the drag handling of the tick that is starting leaves them.
AfterDragging == TickToOcclusion(Session, mouse', keys').frames

\* C8 as stated: when the death timer expires the level restarts with the
\* same index and every frame at its static position, in the static order.
C8_RestartReloadsLayout ==
    [][ Dying /\ TimerExpires =>
          /\ current_level_index' = current_level_index
          /\ TypesOf(frames') = StaticTypes(current_level_index)
          /\ PositionsOf(frames') = StaticPositions(current_level_index) ]_vars

\* C8, amended: when the death timer expires the level restarts with the same
\* index, and the frames keep the order and the positions the tick's own drag
\* handling left them; with the mouse up these are the ones before the tick.
C8_RestartKeepsArrangement ==
    [][ Dying /\ TimerExpires =>
          /\ current_level_index' = current_level_index
          /\ "respawn" \in obs'.ev
          /\ TypesOf(frames') = TypesOf(AfterDragging)
          /\ PositionsOf(frames') = PositionsOf(AfterDragging)
          /\ (~mouse.is_down /\ ~mouse'.is_down =>
                /\ TypesOf(frames') = TypesOf(frames)
                /\ PositionsOf(frames') = PositionsOf(frames)) ]_vars

\* A restart that left a frame where it was dragged before the death and
\* another where it was dragged during the death.
C8_RestartedRearranged ==
    /\ "respawn" \in obs.ev
    /\ current_level_index = 0
    /\ TypesOf(frames) = <<"flower_island", "vortex">>
    /\ PositionsOf(frames) = <<FlowerPlace, VortexElsewhere>>

\* ------------------------------------------------------------------------
\* C9
\* ------------------------------------------------------------------------

\* C9: the tick of the death leaves the timer at 1; every later tick of Dying
\* adds one and keeps the player absent, whatever the input; the tick that
\* finds the timer past 45 restarts the level: same index, movement not
\* started, the player at its spawn marker with timer 0, all key lists full.
C9_DyingRestarts ==
    [][ /\ Moving /\ Dying' => player'.death_timer = 1
        /\ Dying /\ ~TimerExpires =>
             /\ Dying'
             /\ player'.death_timer = player.death_timer + 1
             /\ current_level_index' = current_level_index
        /\ Dying /\ TimerExpires =>
             /\ Editing'
             /\ player.death_timer = death_delay
             /\ current_level_index' = current_level_index
             /\ player'.death_timer = 0
             /\ player'.pos \in SpawnPoints(frames')
             /\ KeysRestored(frames') ]_vars

\* A restart, in a tick that held every key down, that gave back a key
\* collected before the death.
C9_RestartGaveKeyBack ==
    /\ "respawn" \in obs.ev
    /\ keys.jump.is_down /\ keys.right.is_down /\ keys.reset.is_down
    /\ num_remaining_keys < KeyFrames(frames)
    /\ Editing

\* ------------------------------------------------------------------------
\* C10
\* ------------------------------------------------------------------------

\* C10: Winning lasts, whatever the input, until the tick that finds the
\* timer past its threshold; that tick adds one to the level index and loads
\* the next level (static frames, movement not started, not winning, fade set
\* to opaque before the tick's own fade step) or terminates after the last
\* level; no other tick changes the index, and the index of a running session
\* is a valid one.
C10_WinningAdvances ==
    /\ [][ /\ Winning /\ ~TimerExpires =>
                /\ Winning'
                /\ player'.death_timer = player.death_timer + 1
                /\ current_level_index' = current_level_index
           /\ Winning /\ TimerExpires =>
                /\ current_level_index' = current_level_index + 1
                /\ terminated' <=> current_level_index = LastLevel
                /\ ~terminated' =>
                     /\ Editing' /\ ~winning_fade_out'
                     /\ obs'.fade_before_step = FP
                     /\ fade' = FP - fade_step
                     /\ TypesOf(frames') = StaticTypes(current_level_index')
                     /\ PositionsOf(frames') = StaticPositions(current_level_index')
           /\ ~Winning => current_level_index' = current_level_index ]_vars
    /\ [](~terminated => current_level_index \in 0 .. LastLevel)

\* The next level was loaded in a tick that held the reset key and everything
\* else down.
C10_NextLevelLoaded ==
    /\ "load" \in obs.ev
    /\ current_level_index = 1
    /\ keys.reset.is_down /\ keys.jump.is_down /\ mouse.is_down

\* The last level was won with no key left on any frame and the process ended.
LastLevelFinished ==
    /\ terminated
    /\ current_level_index = LastLevel + 1
    /\ KeyFrames(frames) = 0

\* ------------------------------------------------------------------------
\* The first level under four arrangements of its two frames
\* ------------------------------------------------------------------------

MaxAfter == 8

\* A place that puts the vortex's floor across the body of the player standing
\* on the flower island at its home.
VortexOnPlayer == vec(-50, 4)

\* A point of the flower island at its home that the vortex placed at
\* VortexOnPlayer does not cover.
FlowerLow == vec(-50, 60)

Hold(q) == Input(q, TRUE, NoKeys)

\* A drag of either frame to one of three places, then possibly a press on the
\* flower island that only lists it last, then the walk that reaches the
\* vortex from the flower island placed at FlowerPlace.
PlanExit ==
    << Stage({Hold(FlowerHome), Hold(VortexHome)}, 1, 1),
       Stage({Hold(FlowerPlace), Hold(FlowerHome), Hold(VortexOnPlayer)}, 1, 1),
       Stage({Idle}, 1, 1),
       Stage({Hold(FlowerLow), Idle}, 1, 1),
       Stage({Idle}, 1, 1),
       Stage({Walk}, 18, 18),
       Stage({WalkJump}, 1, 1),
       Stage({Walk}, 24, 24),
       Stage({Idle}, 1, MaxAfter) >>

InitExit == InitSession(Constructed(0)) /\ InitInputs

TickExit == Run(PlanExit)

NextExit == TickExit

SpecExit == InitExit /\ [][NextExit]_vars

\* The session when the tick that is starting reaches the interactions.
AtInteractions == TickToOcclusion(Session, mouse', keys')

\* ------------------------------------------------------------------------
\* C5
\* ------------------------------------------------------------------------

\* C5 as stated: a tick whose interactions find movement started, the player
\* existing, the counter at zero and the player within the exit distance of
\* some frame's exit ends in Winning.
C5_WinAtAnyExit ==
    [][ LET w == AtInteractions IN
        (/\ w.movement_started /\ w.player.exists /\ w.num_remaining_keys = 0
         /\ NearExit(w.frames, w.player.pos))
        => Winning' ]_vars

\* The exit's frame is the one the player interacts with: it is not flagged
\* under the player, its rectangle contains the player's position, and every
\* frame listed after it is flagged or does not contain the position.
InteractsWithExit(w) ==
    \E i \in 1 .. Len(w.frames) :
        /\ w.frames[i].exit_pos # <<>>
        /\ Abs(w.frames[i].pos.x + w.frames[i].exit_pos[1].x - w.player.pos.x) < exit_hitbox_size
        /\ Abs(w.frames[i].pos.y + w.frames[i].exit_pos[1].y - w.player.pos.y) < exit_hitbox_size
        /\ ~w.frames[i].player_is_under_this_frame
        /\ WorldPixelIsInRect(w.frames[i], w.player.pos)
        /\ \A j \in (i + 1) .. Len(w.frames) :
               \/ w.frames[j].player_is_under_this_frame
               \/ ~WorldPixelIsInRect(w.frames[j], w.player.pos)

\* C5, amended: a tick ends the Moving state in Winning exactly when its
\* interactions find movement started, the player existing, the counter at
\* zero and the player within the exit distance of the exit of the frame it
\* interacts with (the last listed frame that contains the player's position
\* and is not flagged under the player).
C5_WinAtInteractingExit ==
    [][ LET w == AtInteractions IN
        (/\ w.movement_started /\ w.player.exists /\ w.num_remaining_keys = 0
         /\ InteractsWithExit(w))
        <=> (Moving /\ Winning') ]_vars

\* A win with the exit's frame listed before the flower island.
C5_Won ==
    /\ "win" \in obs.ev
    /\ Winning
    /\ TypesOf(frames) = <<"vortex", "flower_island">>
    /\ PositionsOf(frames) = <<VortexHome, FlowerPlace>>

\* ------------------------------------------------------------------------
\* C2
\* ------------------------------------------------------------------------

IndexOfType(fs, t) == CHOOSE i \in 1 .. Len(fs) : fs[i].type = t

\* The frames of fs that are not flagged under the player, in order.
Unflagged(fs) == SelectSeq(fs, LAMBDA f : ~f.player_is_under_this_frame)

\* The offsets the queries are compared at.
Near == { vec(0, 0), vec(0, 1), vec(0, -1), vec(1, 0), vec(-1, 0) }

\* C2: while movement has started, a frame flagged under the player keeps the
\* flag through every tick whose occlusion pass finds a hitbox corner inside
\* its rectangle and loses it in the pass of the first tick that finds none;
\* and the flagged frames take no part in a collision query: the query gives
\* the same result with them removed from the list.
C2_OcclusionMonotone ==
    /\ [][ LET w == AtInteractions IN
           movement_started =>
             \A i \in 1 .. Len(frames) :
                frames[i].player_is_under_this_frame =>
                  LET j == IndexOfType(w.frames, frames[i].type)
                      k == IndexOfType(frames', frames[i].type)
                      found == CornerInRect(w.frames[j], w.player.pos)
                  IN  /\ found =>
                            /\ w.frames[j].player_is_under_this_frame
                            /\ movement_started' => frames'[k].player_is_under_this_frame
                      /\ ~found => ~w.frames[j].player_is_under_this_frame ]_vars
    /\ [](\A o \in Near :
             SolidAtOffset(frames, player.pos, NoIndex, o, FALSE).ret
                 = SolidAtOffset(Unflagged(frames), player.pos, NoIndex, o, FALSE).ret)

\* The moving player has left the rectangle of a frame that is still flagged;
\* the flagged frame had a solid tile where the player stood.
C2_LeftFlaggedFrame ==
    /\ movement_started /\ player.exists
    /\ \E i \in 1 .. Len(frames) :
          /\ frames[i].player_is_under_this_frame
          /\ ~CornerInRect(frames[i], player.pos)
          /\ \E p \in 1 .. Len(player_hitbox_full) :
                QueryWorldPixel(frames[i], obs.sweep.from.x + player_hitbox_full[p].x,
                                obs.sweep.from.y + player_hitbox_full[p].y) = 1

\* ------------------------------------------------------------------------
\* C6
\* ------------------------------------------------------------------------

\* The tile of frame f under the world pixel q, which lies in f's rectangle.
TileUnder(f, q) ==
    Frames[f.type][((q.y - TopLeftCorner(f).y) \div tile_size) + 1]
                  [((q.x - TopLeftCorner(f).x) \div tile_size) + 1]

\* Frame i is the last listed frame of fs that contains q and is not flagged.
Decides(fs, i, q) ==
    /\ ~fs[i].player_is_under_this_frame
    /\ WorldPixelIsInRect(fs[i], q)
    /\ \A j \in (i + 1) .. Len(fs) :
          fs[j].player_is_under_this_frame \/ ~WorldPixelIsInRect(fs[j], q)

PointSolid(fs, q) == \E i \in 1 .. Len(fs) : Decides(fs, i, q) /\ TileUnder(fs[i], q) = "#"

AnyPointSolid(fs, base) ==
    \E p \in 1 .. Len(player_hitbox_full) : PointSolid(fs, vadd(base, player_hitbox_full[p]))

\* C6: a query that flags no frame reports blocked exactly when, at some
\* sample point, the last listed unflagged frame containing the point has a
\* '#' there; a query that may flag frames reports blocked only if that holds
\* for the flags it leaves.  Lower frames and flagged frames decide nothing.
C6_TopFrameDecides ==
    \A o \in Near :
        /\ SolidAtOffset(frames, player.pos, NoIndex, o, FALSE).ret
               <=> AnyPointSolid(frames, vadd(player.pos, o))
        /\ \A t \in 0 .. Len(frames) :
               LET r == SolidAtOffset(frames, player.pos, t, o, TRUE) IN
               r.ret => AnyPointSolid(r.frames, vadd(player.pos, o))

\* The query at the player's place reports not blocked although, at a sample
\* point, a frame listed before the deciding one has a '#'.
C6_LowerFrameSolid ==
    /\ player.exists
    /\ ~SolidAtOffset(frames, player.pos, NoIndex, vec(0, 0), FALSE).ret
    /\ \E p \in 1 .. Len(player_hitbox_full) :
          LET q == vadd(player.pos, player_hitbox_full[p]) IN
          \E i \in 1 .. Len(frames) :
              /\ Decides(frames, i, q)
              /\ \E j \in 1 .. (i - 1) :
                    /\ ~frames[j].player_is_under_this_frame
                    /\ QueryWorldPixel(frames[j], q.x, q.y) = 1

\* ------------------------------------------------------------------------
\* The second level with the box placed beside the player
\* ------------------------------------------------------------------------

BoxHome == vec(70, 20)

\* A place that puts the box's left wall against the player standing on the
\* desert floor.
BoxPlace == vec(-23, 28)

MaxJumpHold == 3

MaxAir == 30

\* The first level is won and the second loaded; the box is dragged beside
\* the player, who then jumps on the spot.
PlanSink ==
    Drag(FlowerHome, FlowerPlace) \o
    << Stage({Walk}, 18, 18),
       Stage({WalkJump}, 1, 1),
       Stage({Walk}, 24, 24),
       Stage({Idle}, death_delay, death_delay) >> \o
    Drag(BoxHome, BoxPlace) \o
    << Stage({Input(Away, FALSE, KeyJump)}, 1, MaxJumpHold),
       Stage({Idle}, 1, MaxAir) >>

InitSink == InitSession(Constructed(0)) /\ InitInputs

TickSink == Run(PlanSink)

NextSink == TickSink

SpecSink == InitSink /\ [][NextSink]_vars

\* ------------------------------------------------------------------------
\* C1
\* ------------------------------------------------------------------------

\* C1: if the query at offset zero reports not blocked at the place the sweep
\* starts from, with the flags the occlusion pass left, then it reports not
\* blocked at the place the sweep ends at, with the flags the tick leaves.
C1_NoTunnel ==
    (/\ obs.sweep.ran /\ player.exists
     /\ ~Blocked(WithFlags(frames, obs.under_after_pass), obs.sweep.from))
    => ~Blocked(frames, player.pos)

\* ------------------------------------------------------------------------
\* The last level under arbitrary drags of its four frames
\* ------------------------------------------------------------------------

BoxStart == vec(-60, -30)

MaxDragTicks == 6

\* The mouse goes down on, or is carried to, the home of any of the four
\* frames, or is up.
MouseMoves ==
    { Hold(q) : q \in {BoxStart, ClampHome, HoleHome, CatHome} } \cup {Idle}

PlanDrag == << Stage(MouseMoves, 1, MaxDragTicks) >>

InitDrag == InitSession(Loaded(LastLevel)) /\ InitInputs

TickDrag == Run(PlanDrag)

NextDrag == TickDrag

SpecDrag == InitDrag /\ [][NextDrag]_vars

\* ------------------------------------------------------------------------
\* C3
\* ------------------------------------------------------------------------

\* The last listed frame of fs whose rectangle contains q, or NoIndex.
TopmostAt(fs, q) ==
    LET c == { i \in 1 .. Len(fs) : WorldPixelIsInRect(fs[i], q) }
    IN  IF c = {} THEN NoIndex ELSE CHOOSE i \in c : \A j \in c : j <= i

\* C3: a tick that starts a drag on the frame at index h (the last listed
\* frame under the mouse) of n frames leaves that frame at the end of the list
\* and the other n - 1 frames, each at its place, in their former order; a
\* tick that starts no drag leaves the order as it is; the list never holds a
\* frame twice.
C3_DragPromotes ==
    /\ [][ LET n == Len(frames)
               h == obs'.hovered_frame_index
           IN  IF obs'.drag_started
               THEN /\ h = TopmostAt(frames, mouse'.pos) /\ h # NoIndex
                    /\ Len(frames') = n
                    /\ frames'[n].type = frames[h].type
                    /\ \A i \in 1 .. (h - 1) :
                          frames'[i].type = frames[i].type /\ frames'[i].pos = frames[i].pos
                    /\ \A i \in h .. (n - 1) :
                          frames'[i].type = frames[i + 1].type /\ frames'[i].pos = frames[i + 1].pos
               ELSE TypesOf(frames') = TypesOf(frames) ]_vars
    /\ [](\A i, j \in 1 .. Len(frames) : frames[i].type = frames[j].type => i = j)

\* A second drag, started on the second of the four frames after the third
\* had been promoted.
C3_PromotedTwice ==
    /\ obs.drag_started
    /\ obs.hovered_frame_index = 2
    /\ TypesOf(frames) = <<"box", "cat", "hole", "clamp">>

\* ------------------------------------------------------------------------
\* The first ticks of a fresh process under arbitrary mouse and key input
\* ------------------------------------------------------------------------

MaxStartTicks == 4

KeyBoth == [NoKeys EXCEPT !.left = TRUE, !.right = TRUE]

\* The button is up, or down on the spawning frame, or down outside every
\* frame, with no key, one direction or the jump key held; or both directions
\* are held with the button up.
StartInputs ==
    { Input(mp.pos, mp.down, in) :
        mp \in { [pos |-> Away, down |-> FALSE], [pos |-> FlowerHome, down |-> TRUE],
                 [pos |-> Away, down |-> TRUE] },
        in \in { NoKeys, KeyRight, KeyJump } }
    \cup { Input(Away, FALSE, KeyBoth) }

PlanStart == << Stage(StartInputs, 1, MaxStartTicks) >>

InitStart == InitSession(Constructed(0)) /\ InitInputs

TickStart == Run(PlanStart)

NextStart == TickStart

SpecStart == InitStart /\ [][NextStart]_vars

\* ------------------------------------------------------------------------
\* C11
\* ------------------------------------------------------------------------

\* The net horizontal input of a key snapshot.
NetHorizontal(k) == (IF k.right.is_down THEN 1 ELSE 0) - (IF k.left.is_down THEN 1 ELSE 0)

\* C11 as stated: a tick starts movement only if a frame drag has been
\* started and ended before that tick.
C11_StartNeedsCompletedDrag ==
    [][ (~movement_started /\ movement_started') => obs.drag_ended_once ]_vars

\* C11: a tick starts movement only with a nonzero net horizontal input or a
\* fresh jump press while grounded, and only if a frame drag has been started
\* in or before that tick (it need not have ended); while no drag has ever
\* been started no key input starts movement or moves the player.
C11_StartNeedsDragStarted ==
    [][ /\ (~movement_started /\ movement_started') =>
              /\ \/ NetHorizontal(keys') # 0
                 \/ IsPressed(keys'.jump) /\ player'.on_ground
              /\ dragged_at_least_once'
        /\ ~dragged_at_least_once' =>
              /\ ~movement_started'
              /\ player'.pos = player.pos
              /\ player'.vel = player.vel ]_vars

\* Movement started in the tick whose press started the first drag: no drag
\* had ended.
C11_StartedWithDragInProgress ==
    /\ movement_started
    /\ obs.drag_started
    /\ "start_moving" \in obs.ev
    /\ ~obs.drag_ended_once

\* Keys were held for the whole session without any drag and the player has
\* not started.
C11_KeysHeldWithoutDrag ==
    /\ used = MaxStartTicks
    /\ keys.right.is_down /\ keys.right.is_down_prev /\ ~keys.left.is_down
    /\ ~dragged_at_least_once
    /\ ~movement_started

\* ------------------------------------------------------------------------
\* C12
\* ------------------------------------------------------------------------

\* The tick that is starting has a fresh press inside a frame while movement
\* has started and the level is not winning.
ClickOnFrame ==
    /\ movement_started /\ ~winning_fade_out
    /\ IsPressed(mouse')
    /\ \E i \in 1 .. Len(frames) : WorldPixelIsInRect(frames[i], mouse'.pos)

\* C12 as stated: a tick with a fresh press inside a frame, movement started
\* and no win leaves the player absent at its end.
C12_ClickLeavesNoPlayer ==
    [][ ClickOnFrame => ~player'.exists ]_vars

\* C12: a tick with a fresh press inside a frame, movement started and no win
\* has no player after the click step; the player exists at the end of that
\* tick only if the player was already dead and the tick's timer step
\* restarted the level.  A death in Moving without a reset and without
\* leaving the bounds happens only in such a tick, so a held button, a press
\* outside every frame or a press before movement never kills.
C12_ClickKills ==
    [][ /\ ClickOnFrame =>
              /\ ~AtInteractions.player.exists
              /\ player'.exists =>
                    Dying /\ TimerExpires /\ "respawn" \in obs'.ev /\ ~movement_started'
        /\ (Moving /\ Dying' /\ ~ResetIssued /\ ~LeftBounds) => ClickOnFrame ]_vars

\* A fresh press inside a frame in the tick whose timer step restarted the
\* level: the player exists at the end of the tick.
C12_ClickedInRestartTick ==
    /\ "respawn" \in obs.ev
    /\ player.exists
    /\ IsPressed(mouse)
    /\ \E i \in 1 .. Len(frames) : WorldPixelIsInRect(frames[i], mouse.pos)

\* The button, pressed outside every frame, is held over a frame while the
\* player walks on.
C12_HeldOverFrame ==
    /\ Moving
    /\ mouse.is_down /\ mouse.is_down_prev
    /\ \E i \in 1 .. Len(frames) : WorldPixelIsInRect(frames[i], mouse.pos)

\* ------------------------------------------------------------------------
\* C13
\* ------------------------------------------------------------------------

\* The position of the frame of type t in fs.
PosOfType(fs, t) == fs[CHOOSE i \in 1 .. Len(fs) : fs[i].type = t].pos

\* C13: after the drag step of a tick a frame is marked dragged only if the
\* button is down, the level is not winning and it is not the case that
\* movement has started with the player alive at that step; the drag step
\* moves no frame when movement has started and the player is alive at that
\* step (it may move one while the player is dead).
C13_DragEnds ==
    [][ LET d == AtInteractions IN
        /\ \A i \in 1 .. Len(d.frames) :
              d.frames[i].dragged =>
                  /\ mouse'.is_down
                  /\ ~d.winning_fade_out
                  /\ ~(d.movement_started /\ d.player.exists)
                  /\ i = Len(d.frames)
        /\ (d.movement_started /\ d.player.exists) =>
              \A i \in 1 .. Len(frames) :
                  PosOfType(d.frames, frames[i].type) = frames[i].pos ]_vars

\* A frame is dragged, and has been moved, while the player is dead.
C13_DraggedWhileDying ==
    /\ Dying /\ movement_started
    /\ frames[Len(frames)].dragged
    /\ frames[Len(frames)].type = "flower_island"
    /\ frames[Len(frames)].pos # FlowerHome
    /\ ~("drag_start" \in obs.ev)

\* The button stayed down on a dragged frame and the drag was ended because
\* the player is alive and moving.
C13_EndedByMovement ==
    /\ Moving
    /\ mouse.is_down /\ mouse.is_down_prev
    /\ "drag_end" \in obs.ev

\* ------------------------------------------------------------------------
\* Every level under drags of its frames to and beyond the screen's corners
\* ------------------------------------------------------------------------

MaxClampTicks == 3

\* The corners of the screen and two points outside it.
FarPoints ==
    { vec(-240, -135), vec(239, -135), vec(-240, 134), vec(239, 134),
      vec(400, 300), vec(-400, -300) }

\* The mouse goes down on the centre or on the top left pixel of a frame of
\* the current level, or is carried to a far point, or is up.
ClampInputs ==
    { Hold(frames[i].pos) : i \in 1 .. Len(frames) }
    \cup { Hold(TopLeftCorner(frames[i])) : i \in 1 .. Len(frames) }
    \cup { Hold(q) : q \in FarPoints }
    \cup { Idle }

PlanClamp == << Stage(ClampInputs, 1, MaxClampTicks) >>

InitClamp ==
    /\ \E w \in {Constructed(0)} \cup { Loaded(idx) : idx \in 1 .. LastLevel } : InitSession(w)
    /\ InitInputs

TickClamp == Run(PlanClamp)

NextClamp == TickClamp

SpecClamp == InitClamp /\ [][NextClamp]_vars

\* ------------------------------------------------------------------------
\* C14
\* ------------------------------------------------------------------------

\* The rectangle of a frame of type t at p lies in the screen inset by 8 pixels.
InsidePlayField(t, p) ==
    /\ 2 * Abs(p.x) <= 2 * (240 - 8) - PixelSize(t).x
    /\ 2 * Abs(p.y) <= 2 * (135 - 8) - PixelSize(t).y

\* C14: every frame of the session, and every frame of every level's static
\* layout, satisfies |pos.x| <= 240 - width/2 - 8 and
\* |pos.y| <= 135 - height/2 - 8, whatever drags were made.
C14_FramesInsidePlayField ==
    /\ \A i \in 1 .. Len(frames) : InsidePlayField(frames[i].type, frames[i].pos)
    /\ \A l \in 1 .. Len(levels) : \A i \in 1 .. Len(levels[l]) :
          InsidePlayField(levels[l][i].type, levels[l][i].pos)

\* A frame has been carried against two edges of the play field at once: its
\* rectangle touches the inset on the right and at the bottom.
C14_FrameInCorner ==
    \E i \in 1 .. Len(frames) :
        /\ 2 * frames[i].pos.x = 2 * (240 - 8) - PixelSize(frames[i].type).x
        /\ 2 * frames[i].pos.y = 2 * (135 - 8) - PixelSize(frames[i].type).y
        /\ mouse.pos = vec(400, 300)

\* ------------------------------------------------------------------------
\* C15
\* ------------------------------------------------------------------------

\* The exit of every frame that requests one is at the offset of its marker.
ExitsAnchored(fs) ==
    \A i \in 1 .. Len(fs) :
        LET ks == { k \in 1 .. Len(fs[i].spawned_entity_types) :
                      fs[i].spawned_entity_types[k] = "exit" }
        IN  IF ks = {} THEN fs[i].exit_pos = <<>>
            ELSE \E k \in ks :
                   fs[i].exit_pos =
                       << MarkerOffset(fs[i], FirstMarkerCell(fs[i].type, MarkerChars[k])) >>

\* C15: at the end of every tick in which movement has not started the player
\* exists and stands at the player marker of its spawning frame's current
\* position, whatever drags and restarts came before; the exit and key
\* anchors are at their markers' offsets from their frames.
C15_PlayerMirrorsFrame ==
    (~movement_started /\ ~terminated) =>
        /\ player.exists
        /\ Cardinality(SpawnPoints(frames)) = 1
        /\ player.pos \in SpawnPoints(frames)
        /\ ExitsAnchored(frames)
        /\ KeysRestored(frames)

\* The level restarted after the spawning frame had been dragged before the
\* movement and dragged back home during the death.
C15_RespawnedOnMovedFrame ==
    /\ "respawn" \in obs.ev
    /\ current_level_index = 0
    /\ PosOfType(frames, "flower_island") = FlowerHome
    /\ player.pos = Constructed(0).player.pos

\* The spawning frame is being dragged before any movement and the player
\* has gone with it.
C15_CarriedWithFrame ==
    /\ ~movement_started
    /\ current_level_index = 0
    /\ PosOfType(frames, "flower_island") = FlowerPlace
    /\ frames[Len(frames)].dragged
    /\ player.pos = vadd(FlowerPlace, vsub(Constructed(0).player.pos, FlowerHome))

\* ------------------------------------------------------------------------
\* C16
\* ------------------------------------------------------------------------

\* a is b with some entries left out.
RECURSIVE SubList(_, _)
SubList(a, b) ==
    IF a = <<>> THEN TRUE
    ELSE IF b = <<>> THEN FALSE
    ELSE IF Head(a) = Head(b) THEN SubList(Tail(a), Tail(b))
    ELSE SubList(a, Tail(b))

\* The key list of the frame of type t in fs.
KeysOfType(fs, t) == fs[CHOOSE i \in 1 .. Len(fs) : fs[i].type = t].key_positions

\* C16: between two consecutive ticks in which movement has started every
\* frame's key list is a sub-list of its previous value; a key list gains an
\* entry only in a tick that loads a level, restarts the level, or drags the
\* frame before movement has started.
C16_KeysOnlyShrink ==
    [][ \A i \in 1 .. Len(frames) :
          LET t == frames[i].type IN
          (\E j \in 1 .. Len(frames') : frames'[j].type = t) =>
              /\ (movement_started /\ movement_started') =>
                    SubList(KeysOfType(frames', t), frames[i].key_positions)
              /\ ~SubList(KeysOfType(frames', t), frames[i].key_positions) =>
                    \/ "load" \in obs'.ev
                    \/ "respawn" \in obs'.ev
                    \/ /\ ~movement_started
                       /\ \E j \in 1 .. Len(frames') : frames'[j].type = t /\ frames'[j].dragged
        ]_vars

\* A frame whose key was collected is dragged elsewhere while the player is
\* dead, and its key list is still empty.
C16_EmptiedFrameDragged ==
    /\ Dying /\ movement_started
    /\ frames[Len(frames)].dragged
    /\ frames[Len(frames)].type = "cat"
    /\ frames[Len(frames)].pos = HoleElsewhere
    /\ frames[Len(frames)].key_positions = <<>>

\* ------------------------------------------------------------------------
\* C17
\* ------------------------------------------------------------------------

\* The keys of frame f within the key distance of pos.
KeysInReach(f, pos) ==
    { k \in 1 .. Len(f.key_positions) :
        WithinHitbox(vadd(f.pos, f.key_positions[k]), pos, key_hitbox_size) }

\* The key offsets of the frame of type t in fs, as a set.
KeySetOfType(fs, t) ==
    { KeysOfType(fs, t)[k] : k \in 1 .. Len(KeysOfType(fs, t)) }

\* C17 as stated: in a tick whose interaction step finds the player existing
\* and movement started, every key of every frame within the key distance of
\* the player is gone from its frame's list at the end of the tick.
C17_EveryKeyInReachCollected ==
    [][ LET d == AtInteractions IN
        (d.movement_started /\ d.player.exists) =>
            \A i \in 1 .. Len(d.frames) : \A k \in KeysInReach(d.frames[i], d.player.pos) :
                d.frames[i].key_positions[k] \notin KeySetOfType(frames', d.frames[i].type) ]_vars

\* C17: in a tick whose interaction step finds the player existing and
\* movement started, every key within the key distance of the player that
\* belongs to the frame the player interacts with (the last listed frame that
\* holds the player's position and is not flagged under_player) is removed in
\* that tick, and no key of any other frame is removed.
C17_KeysOfInteractingFrameCollected ==
    [][ LET d == AtInteractions
            h == InteractionFrame(d)
        IN  (d.movement_started /\ d.player.exists) =>
              \A i \in 1 .. Len(d.frames) :
                  KeySetOfType(frames', d.frames[i].type) =
                      { d.frames[i].key_positions[k] :
                          k \in (1 .. Len(d.frames[i].key_positions)) \
                                   (IF i = h THEN KeysInReach(d.frames[i], d.player.pos) ELSE {}) }
      ]_vars

\* The tick's interaction step ran with the key of the cat frame, which lies
\* over the player and is flagged, within the key distance of the player, and
\* the key is still there.
C17_KeyOfFlaggedFrameInReach ==
    /\ Moving
    /\ obs.exit_checked
    /\ \E i \in 1 .. Len(frames) :
          /\ frames[i].type = "cat"
          /\ frames[i].player_is_under_this_frame
          /\ KeysInReach(frames[i], obs.pos_at_interactions) # {}

\* A key of the frame the player interacts with has been collected.
C17_KeyCollected ==
    /\ "key_collected" \in obs.ev
    /\ Moving

\* ------------------------------------------------------------------------
\* Marker resolution of one frame: any template, any list of requested kinds
\* ------------------------------------------------------------------------

MaxKinds == 3

MaxResolutions == 2

\* enum class SpawnedEntity.
Kinds == {"none", "player", "exit", "key"}

KindLists == UNION { [1 .. n -> Kinds] : n \in 0 .. MaxKinds }

MarkerPlaces == { vec(0, 0), vec(-20, 10) }

\* A session whose only frame is a freshly constructed Frame(type, pos, kinds).
InitMarkers ==
    /\ \E t \in DOMAIN Frames, p \in MarkerPlaces, ents \in KindLists :
          InitSession([Constructed(0) EXCEPT
                          !.frames = << NewFrame(LevelFrame(t, p.x, p.y, ents)) >>,
                          !.player = DefaultPlayer])
    /\ InitInputs

\* The session variables take the values of w after one more resolution;
\* `used` counts the resolutions and `stage` - 1 the restarts among them.
Resolved(w) ==
    /\ ~content_error
    /\ used < MaxResolutions
    /\ used' = used + 1
    /\ frames' = w.frames
    /\ player' = w.player
    /\ movement_started' = w.movement_started
    /\ content_error' = w.content_error
    /\ UNCHANGED << current_level_index, fade, winning_fade_out, num_remaining_keys,
                    reset_button_hovered, mouse, keys, dragged_at_least_once, terminated,
                    obs >>

\* RestartLevel: the player is reset and every frame resolved.
ResolveAll == Resolved(RestartLevel(Session)) /\ stage' = stage + 1

\* The call of the continue-drag step: the frame is resolved, the player kept.
ResolveOne ==
    \E r \in {InitEntityFromSpecificFrame(frames[1], player)} :
        /\ Resolved([Session EXCEPT !.frames[1] = r.frame, !.player = r.player,
                                    !.content_error = @ \/ r.error])
        /\ stage' = stage

NextMarkers == ResolveAll \/ ResolveOne

SpecMarkers == InitMarkers /\ [][NextMarkers]_vars

\* ------------------------------------------------------------------------
\* C18
\* ------------------------------------------------------------------------

\* C18: resolving a frame's markers again, with the grid, the position and
\* the list of requested kinds unchanged, leaves the player's position, the
\* exit offset and the key-offset list as the first resolution left them, and
\* the key list holds no offset twice.
C18_ResolutionIdempotent ==
    [][ (used >= 1 /\ used' = used + 1) =>
            /\ player' = player
            /\ frames'[1].exit_pos = frames[1].exit_pos
            /\ frames'[1].key_positions = frames[1].key_positions
            /\ \A a, b \in 1 .. Len(frames'[1].key_positions) :
                  frames'[1].key_positions[a] = frames'[1].key_positions[b] => a = b
            /\ ~content_error' ]_vars

\* A frame that places a key, the player and an exit has been resolved twice.
C18_ResolvedTwice ==
    /\ used = 2
    /\ frames[1].type = "snek"
    /\ frames[1].spawned_entity_types = <<"key", "player", "exit">>
    /\ Len(frames[1].key_positions) = 1
    /\ frames[1].exit_pos # <<>>
    /\ player.exists

\* ------------------------------------------------------------------------
\* C19
\* ------------------------------------------------------------------------

\* The 0-based cells (x, y) of template t that hold the digit of k.
DigitCells(t, k) ==
    { c \in (0 .. Len(Frames[t][1]) - 1) \X (0 .. Len(Frames[t]) - 1) :
        Frames[t][c[2] + 1][c[1] + 1] = MarkerChars[k] }

\* The first of them in row-major order.
FirstDigitCell(t, k) ==
    CHOOSE c \in DigitCells(t, k) :
        \A d \in DigitCells(t, k) :
            c[2] * Len(Frames[t][1]) + c[1] <= d[2] * Len(Frames[t][1]) + d[1]

\* The centre of that tile relative to the centre of the frame.
DigitOffset(t, k) ==
    vec(FirstDigitCell(t, k)[1] * 16 + 8 - (Len(Frames[t][1]) * 16) \div 2,
        FirstDigitCell(t, k)[2] * 16 + 8 - (Len(Frames[t]) * 16) \div 2)

\* The requests of kind e among the first n of frame f, in request order.
RequestsOf(f, e, n) ==
    SelectSeq([k \in 1 .. n |-> k], LAMBDA k : f.spawned_entity_types[k] = e)

\* C19: after a resolution of frame f the error is set exactly when the digit
\* of some request k (padding requests included) is absent from the grid;
\* without an error every key request, in order, is bound to the centre of
\* the first row-major cell holding its digit, relative to the frame's
\* position, the exit to that of the last exit request and the player stands
\* at the frame's position plus that of the last player request; with an
\* error the requests before the first absent digit are bound and nothing
\* runs afterwards.
C19_MarkerBinding ==
    /\ [](used >= 1 =>
            LET f == frames[1]
                n == Len(f.spawned_entity_types)
                missing == { k \in 1 .. n : DigitCells(f.type, k) = {} }
                done == IF missing = {} THEN n
                        ELSE (CHOOSE k \in missing : \A j \in missing : k <= j) - 1
                ks == RequestsOf(f, "key", done)
                es == RequestsOf(f, "exit", done)
                ps == RequestsOf(f, "player", done)
            IN  /\ content_error <=> missing # {}
                /\ f.key_positions = [i \in 1 .. Len(ks) |-> DigitOffset(f.type, ks[i])]
                /\ f.exit_pos = IF es = <<>> THEN <<>>
                                ELSE << DigitOffset(f.type, es[Len(es)]) >>
                /\ player.exists <=> ps # <<>>
                /\ ps # <<>> => player.pos = vadd(f.pos, DigitOffset(f.type, ps[Len(ps)])))
    /\ [][~content_error]_vars

\* A resolution failed at the third request, a padding request whose digit the
\* box template does not hold, after binding the first two.
C19_FailedAtPadding ==
    /\ used = 1
    /\ content_error
    /\ frames[1].type = "box"
    /\ frames[1].spawned_entity_types = <<"key", "player", "none">>
    /\ Len(frames[1].key_positions) = 1
    /\ player.exists

\* A padding request let the player be placed at the second marker.
C19_BoundAfterPadding ==
    /\ used = 1
    /\ ~content_error
    /\ frames[1].type = "box"
    /\ frames[1].spawned_entity_types = <<"none", "player">>
    /\ player.pos = vadd(frames[1].pos, DigitOffset("box", 2))

\* ------------------------------------------------------------------------
\* C20
\* ------------------------------------------------------------------------

\* C20 as stated: the tick whose position update takes the player's y beyond
\* 135 leaves the player existing; the death comes with the next tick.
C20_DiesInNextTick ==
    [][ (Moving /\ player'.pos.y > 135) => player'.exists ]_vars

\* C20: the tick whose position update takes the player's y beyond 135 sets
\* the player's existence to false itself and leaves the death timer at 1, so
\* that no tick ends with a living player below the screen; every following
\* tick adds one to the timer until the tick that restarts the level.
C20_DiesInSameTick ==
    /\ [][ (Moving /\ player'.pos.y > 135) =>
              /\ ~player'.exists
              /\ ~winning_fade_out'
              /\ player.death_timer = 0 /\ player'.death_timer = 1 ]_vars
    /\ [][ Dying =>
              IF TimerExpires
              THEN "respawn" \in obs'.ev /\ player'.exists /\ player'.death_timer = 0
              ELSE ~player'.exists /\ player'.death_timer = player.death_timer + 1 ]_vars
    /\ [](player.exists => player.pos.y <= 135)

\* The player fell out of the bottom of the screen in this tick.
C20_FellOut ==
    /\ "death" \in obs.ev
    /\ player.pos.y > 135
    /\ player.vel.y > 0
    /\ player.death_timer = 1
    /\ ~IsPressed(mouse) /\ ~IsPressed(keys.reset)

\* ------------------------------------------------------------------------
\* The landing scenario: a falling player in contact with a floor
\* ------------------------------------------------------------------------

MaxLandTicks == 4

\* Places on the floor of the flower island of level 0 (the player's hitbox
\* ends one pixel above the floor tiles) and downward speeds.
LandingXs == {-70, -60, -50, -40, -30}

LandingSpeeds == {100, 200, 400}

\* Movement has started and the player, not yet found grounded, is placed in
\* contact with the floor with a downward velocity and no remainder.
Landing(x, v) ==
    [Constructed(0) EXCEPT !.movement_started = TRUE,
                           !.dragged_at_least_once = TRUE,
                           !.drag_ended_once = TRUE,
                           !.player.pos = vec(x, Constructed(0).player.pos.y),
                           !.player.vel = vec(0, v),
                           !.player.vel_comp = vec(0, 0),
                           !.player.on_ground = FALSE,
                           !.player.on_ground_prev = FALSE]

InitLanding ==
    /\ \E x \in LandingXs, v \in LandingSpeeds : InitSession(Landing(x, v))
    /\ InitInputs

PlanLanding == << Stage({Idle, Walk, WalkLeft}, 1, MaxLandTicks) >>

TickLanding == Run(PlanLanding)

NextLanding == TickLanding

SpecLanding == InitLanding /\ [][NextLanding]_vars

\* ------------------------------------------------------------------------
\* C21
\* ------------------------------------------------------------------------

C21_StillGrounded ==
    /\ used = MaxLandTicks
    /\ player.on_ground /\ player.on_ground_prev
    /\ "landing" \notin obs.ev

\* ------------------------------------------------------------------------
\* C22
\* ------------------------------------------------------------------------

\* The session when the tick that is starting reaches "Update position": the
\* interactions, the key count, the horizontal control, the grounded probe,
\* the jumping block and gravity have run.
AtPositionUpdate ==
    Bind(AtInteractions, LAMBDA d :
    Bind(CountKeys(Interactions(d)), LAMBDA a :
        IF a.player.exists
        THEN Bind(HorizontalControl(a, keys'), LAMBDA b :
             Bind(GroundCheck(b), LAMBDA c :
             Bind(Jumping(c, keys'), LAMBDA e : Gravity(e))))
        ELSE a))

\* s is the integer nearest to the fixed-point value t, and r is what is kept
\* of the residue: the residue times 0.98, or nothing.
SubPixelStep(t, s, r) ==
    /\ 2 * Abs(t - s * FP) <= FP
    /\ r \in {0, CDiv((t - s * FP) * 98, 100)}

\* C22: in every tick with a player, on each axis the requested step is
\* velocity plus remainder rounded to the nearest integer, the new remainder
\* is the rounding residue times the damping factor (or zero, when the sweep
\* was blocked on that axis), and the stored remainder always lies within
\* [-0.49, 0.49].
C22_SubPixel ==
    /\ [][ \A g \in {AtPositionUpdate} :
            g.player.exists =>
              /\ obs'.sweep.ran
              /\ SubPixelStep(g.player.vel.x + g.player.vel_comp.x,
                              obs'.sweep.int_vel.x, player'.vel_comp.x)
              /\ SubPixelStep(g.player.vel.y + g.player.vel_comp.y,
                              obs'.sweep.int_vel.y, player'.vel_comp.y) ]_vars
    /\ [](/\ 100 * Abs(player.vel_comp.x) <= 49 * FP
          /\ 100 * Abs(player.vel_comp.y) <= 49 * FP)

\* A tick stepped on both axes and left a remainder on both.
C22_RemainderCarried ==
    /\ obs.sweep.ran
    /\ obs.sweep.int_vel.x # 0 /\ obs.sweep.int_vel.y # 0
    /\ player.vel_comp.x # 0 /\ player.vel_comp.y # 0
    /\ Len(obs.sweep.steps) >= 2

\* ------------------------------------------------------------------------
\* C23
\* ------------------------------------------------------------------------

\* The highest index in the set c of frame indices, or NoIndex.
Highest(c) == IF c = {} THEN NoIndex ELSE CHOOSE i \in c : \A j \in c : j <= i

\* The frame the hover resolution of the tick that is starting has to pick:
\* a dragged frame; otherwise none when the reset button is hovered (as this
\* tick's hover check found it) or the win-fade is active; otherwise the
\* highest-index frame whose rectangle holds the mouse point.
HoverExpected ==
    LET dr == { i \in 1 .. Len(frames) : frames[i].dragged }
    IN  IF dr # {} THEN Highest(dr)
        ELSE IF reset_button_hovered' \/ winning_fade_out THEN NoIndex
        ELSE Highest({ i \in 1 .. Len(frames) : WorldPixelIsInRect(frames[i], mouse'.pos) })

\* The types of the hovered frames of fs.
HoveredTypes(fs) == { fs[i].type : i \in { j \in 1 .. Len(fs) : fs[j].hovered } }

\* C23: after each tick at most one frame is hovered, and it is the frame the
\* tick's hover resolution had to pick: the dragged frame if there was one,
\* otherwise no frame when the reset button is hovered or the win-fade is
\* active, otherwise the highest-index frame whose rectangle holds the mouse
\* point.  (A tick that loads a level replaces the frames; none is hovered.)
C23_HoverResolution ==
    [][ /\ Cardinality({ i \in 1 .. Len(frames') : frames'[i].hovered }) <= 1
        /\ obs'.hovered_frame_index = HoverExpected
        /\ HoveredTypes(frames') =
              IF HoverExpected = NoIndex \/ "load" \in obs'.ev THEN {}
              ELSE { frames[HoverExpected].type } ]_vars

\* The mouse is over a frame and over the reset button while movement has
\* started: no frame is hovered.
C23_ButtonHidesFrame ==
    /\ reset_button_hovered
    /\ \E i \in 1 .. Len(frames) : WorldPixelIsInRect(frames[i], mouse.pos) /\ ~frames[i].dragged
    /\ \A i \in 1 .. Len(frames) : ~frames[i].hovered

\* A frame is hovered without being dragged.
C23_HoveredNotDragged ==
    \E i \in 1 .. Len(frames) :
        /\ frames[i].hovered /\ ~frames[i].dragged
        /\ WorldPixelIsInRect(frames[i], mouse.pos)
        /\ mouse.is_down /\ mouse.is_down_prev

\* ------------------------------------------------------------------------
\* The single-frame tile query on its own
\* ------------------------------------------------------------------------
\* One frame of any template is placed at a position the drag clamp allows,
\* and QueryWorldPixel is called for pixels at and around every tile border
\* of the frame.

MaxQueries == 1

\* Placement positions before the clamp: far corners, the centre, odd and
\* negative coordinates.
QueryPlaces == { vec(-1000, -1000), vec(1000, 1000), vec(0, 0), vec(-7, 13), vec(33, -21) }

\* Offsets from a frame edge at and next to every tile border of n tiles,
\* one pixel outside the frame included.
BorderOffsets(n) ==
    UNION { { k * tile_size - 1, k * tile_size, k * tile_size + 1, k * tile_size + 7 } : k \in 0 .. n }

QueryPixels(f) ==
    { vec(TopLeftCorner(f).x + dx, TopLeftCorner(f).y + dy) :
        dx \in BorderOffsets(TileSize(f.type).x), dy \in BorderOffsets(TileSize(f.type).y) }

InitQuery ==
    /\ \E t \in DOMAIN Frames, p \in QueryPlaces :
          InitSession([Constructed(0) EXCEPT
                          !.frames = << NewFrame(LevelFrame(t, ClampFramePos(t, p).x,
                                                            ClampFramePos(t, p).y, <<>>)) >>,
                          !.player = DefaultPlayer])
    /\ InitInputs

\* One call of Frame::QueryWorldPixel; the pixel asked for is kept in the
\* mouse position and the answer in obs.
Query ==
    /\ used < MaxQueries
    /\ \E q \in QueryPixels(frames[1]) :
          /\ mouse' = [mouse EXCEPT !.pos = q]
          /\ obs' = [pixel |-> q, result |-> QueryWorldPixel(frames[1], q.x, q.y),
                     asserted |-> InRect(frames[1], q.x, q.y)
                                    /\ TileCoordOutOfRange(frames[1], q.x, q.y)]
    /\ used' = used + 1
    /\ UNCHANGED << frames, current_level_index, fade, winning_fade_out, player,
                    movement_started, num_remaining_keys, reset_button_hovered, keys,
                    dragged_at_least_once, content_error, terminated, stage >>

NextQuery == Query

SpecQuery == InitQuery /\ [][NextQuery]_vars

\* ------------------------------------------------------------------------
\* C24
\* ------------------------------------------------------------------------

\* C24: for every template, every placement the clamp allows and every pixel
\* that passes the AABB membership test, QueryWorldPixel does not take its
\* out-of-range branch and answers solid/empty from the tile holding the
\* pixel; a pixel failing the membership test is answered with -1.
C24_AssertionUnreachable ==
    used > 0 =>
        /\ ~obs.asserted
        /\ obs.result = IF ~WorldPixelIsInRect(frames[1], obs.pixel) THEN -1
                        ELSE IF TileUnder(frames[1], obs.pixel) = "#" THEN 1 ELSE 0

\* The last pixel column and row of a frame pushed into the screen corner
\* were queried and are solid.
C24_LastPixelQueried ==
    /\ used > 0
    /\ obs.pixel = vec(TopLeftCorner(frames[1]).x + PixelSize(frames[1].type).x - 1,
                       TopLeftCorner(frames[1]).y + PixelSize(frames[1].type).y - 1)
    /\ frames[1].pos = ClampFramePos(frames[1].type, vec(1000, 1000))
    /\ obs.result = 1

\* ------------------------------------------------------------------------
\* C25
\* ------------------------------------------------------------------------

\* The session of the tick that is starting, just before the occlusion pass.
AtOcclusion ==
    Bind(ResetButton(Session, mouse', keys'), LAMBDA a :
    Bind(ClickKill(a, mouse'), LAMBDA w1 :
    Bind(HoveredFrameIndex(w1, mouse'), LAMBDA h :
    Bind(ResolveHover(w1, mouse'), LAMBDA b :
        Dragging(b, mouse', h, \E i \in 1 .. Len(w1.frames) : w1.frames[i].dragged)))))

\* The lowest index in the set c of frame indices, or NoIndex.
Lowest(c) == IF c = {} THEN NoIndex ELSE CHOOSE i \in c : \A j \in c : i <= j

\* The frames of session g with a hitbox corner in their rectangle whose flag
\* the pass finds unset: the flag carried from the previous tick, which the
\* pass first clears when movement has not started.
TouchedUnflagged(g) ==
    { i \in 1 .. Len(g.frames) :
        /\ CornerInRect(g.frames[i], g.player.pos)
        /\ ~(g.movement_started /\ g.frames[i].player_is_under_this_frame) }

\* The frames of session d, taken after the pass, with a hitbox corner in
\* their rectangle and not flagged.
TouchedNotUnder(d) ==
    { i \in 1 .. Len(d.frames) :
        /\ CornerInRect(d.frames[i], d.player.pos)
        /\ ~d.frames[i].player_is_under_this_frame }

\* C25 as stated: after the occlusion pass topmost_touched_frame is the
\* lowest index among the frames that hold a hitbox corner and are not
\* flagged under_player, and absent when there is none.
C25_TopmostIsLowest ==
    [][ \A d \in {AtInteractions} :
            d.topmost_touched_frame = Lowest(TouchedNotUnder(d)) ]_vars

\* C25 amended: after the occlusion pass topmost_touched_frame is the highest
\* index among the frames that hold a hitbox corner and whose under_player
\* flag the pass found unset (every such frame when movement has not
\* started), and absent when there is none.
C25_TopmostIsHighest ==
    [][ \A g \in {AtOcclusion} :
            /\ UpdateAABBFlags(g).topmost_touched_frame = Highest(TouchedUnflagged(g))
            /\ obs'.topmost_touched_frame = Highest(TouchedUnflagged(g)) ]_vars

\* Two unflagged frames hold a corner of the moving player, and the pass
\* recorded the higher one.
C25_TwoFramesTouched ==
    /\ movement_started
    /\ player.exists
    /\ \E i, j \in 1 .. Len(frames) :
          /\ i < j
          /\ frames[i].aabb_overlaps_player /\ ~frames[i].player_is_under_this_frame
          /\ frames[j].aabb_overlaps_player /\ ~frames[j].player_is_under_this_frame
          /\ obs.topmost_touched_frame = j

\* ------------------------------------------------------------------------
\* C26
\* ------------------------------------------------------------------------

\* The two readings of the occlusion-flag rule for a consulted frame i that
\* reports Solid in a query with topmost_touched_frame t: as stated (i is
\* below t), and as amended (t is present, i is above t and frame i held no
\* hitbox corner at the occlusion pass).
FlagRule(stated, fs, i, t) ==
    IF stated THEN t # NoIndex /\ i < t
    ELSE t # NoIndex /\ t < i /\ ~fs[i].aabb_overlaps_player

\* One sample point of a query obeys the rule: if the frame consulted for the
\* point reports Solid, it is flagged and the answer left alone when the
\* rule says so, and otherwise it is not flagged and the answer is blocked.
PointObeys(stated, acc, nxt) ==
    \A i \in {ConsultedFrame(acc.frames, Len(acc.frames),
                              acc.base.x + player_hitbox_full[acc.p].x,
                              acc.base.y + player_hitbox_full[acc.p].y)} :
        (i # NoIndex /\ QueryWorldPixel(acc.frames[i],
                                        acc.base.x + player_hitbox_full[acc.p].x,
                                        acc.base.y + player_hitbox_full[acc.p].y) = 1)
        => IF FlagRule(stated, acc.frames, i, acc.topmost_touched_frame)
           THEN nxt.frames[i].player_is_under_this_frame /\ nxt.ret = acc.ret
           ELSE ~nxt.frames[i].player_is_under_this_frame /\ nxt.ret

\* Every sample point of the query that starts as acc obeys the rule.
RECURSIVE QueryObeys(_, _)
QueryObeys(stated, acc) ==
    IF acc.p > Len(player_hitbox_full) THEN TRUE
    ELSE \A nxt \in {SolidAtPoint(acc)} :
            /\ PointObeys(stated, acc, nxt)
            /\ QueryObeys(stated, [nxt EXCEPT !.p = @ + 1])

\* The query of one sweep attempt obeys the rule.
AttemptObeys(stated, st, vert, t) ==
    LET iv == IF vert THEN st.int_vel.y ELSE st.int_vel.x
        offset == IF vert THEN vec(0, Sign(iv)) ELSE vec(Sign(iv), 0)
    IN  iv # 0 =>
            QueryObeys(stated, [frames |-> st.frames, ret |-> FALSE, p |-> 1,
                                base |-> vadd(st.pos, offset),
                                topmost_touched_frame |-> t, update_frames |-> TRUE])

\* Every movement-validation query of the sweep that starts as st obeys the
\* rule.
RECURSIVE SweepObeys(_, _, _)
SweepObeys(stated, st, t) ==
    IF st.int_vel = vec(0, 0) THEN TRUE
    ELSE /\ AttemptObeys(stated, st, FALSE, t)
         /\ \A a \in {SweepAxis(st, FALSE, t)} :
                /\ AttemptObeys(stated, a, TRUE, t)
                /\ \A b \in {SweepAxis(a, TRUE, t)} : SweepObeys(stated, b, t)

\* The sweep of the tick that is starting obeys the rule.
TickSweepObeys(stated) ==
    \A g \in {AtPositionUpdate} :
        g.player.exists =>
            SweepObeys(stated,
                       [frames |-> g.frames, pos |-> g.player.pos,
                        int_vel |-> IntVel(g.player), vel |-> g.player.vel,
                        vel_comp |-> NextVelComp(g.player), moved_x |-> FALSE,
                        steps |-> <<>>],
                       g.topmost_touched_frame)

\* C26 as stated: in a movement-validation query a consulted frame that
\* reports Solid is flagged under_player, and does not block, exactly when
\* its index is below topmost_touched_frame; at or above it blocks.
C26_FlaggedBelowTopmost == [][ TickSweepObeys(TRUE) ]_vars

\* C26 amended: the frame is flagged, and does not block, exactly when
\* topmost_touched_frame is present, the frame's index is above it and the
\* frame held no hitbox corner at the occlusion pass; otherwise it blocks
\* and is not flagged.
C26_FlaggedAboveTopmost == [][ TickSweepObeys(FALSE) ]_vars

\* The sweep flagged a frame listed above the touched one, and a frame listed
\* below the touched one is unflagged and touched.
C26_FlaggedBySweep ==
    /\ obs.sweep.ran
    /\ obs.topmost_touched_frame # NoIndex
    /\ \E i \in 1 .. Len(frames) :
          /\ i > obs.topmost_touched_frame
          /\ frames[i].player_is_under_this_frame
          /\ ~obs.under_after_pass[i]

\* ------------------------------------------------------------------------
\* C27
\* ------------------------------------------------------------------------

\* C27: after the occlusion pass of every tick the aabb flag of a frame says
\* whether its rectangle holds a hitbox corner, and every frame without one
\* has its under_player flag cleared: under_player implies
\* aabb_overlaps_player at that point of the tick.
C27_UnderImpliesOverlap ==
    [][ \A d \in {AtInteractions} :
          \A i \in 1 .. Len(d.frames) :
             /\ d.frames[i].aabb_overlaps_player = CornerInRect(d.frames[i], d.player.pos)
             /\ d.frames[i].player_is_under_this_frame => d.frames[i].aabb_overlaps_player
             /\ obs'.under_after_pass[i] = d.frames[i].player_is_under_this_frame ]_vars

\* With movement started before the tick, the pass of the last tick cleared
\* the flag of a frame the player had left.
C27_FlagClearedByPass ==
    /\ movement_started
    /\ "start_moving" \notin obs.ev
    /\ \E i \in 1 .. Len(frames) :
          /\ i <= Len(obs.under_before_pass)
          /\ obs.under_before_pass[i]
          /\ ~obs.under_after_pass[i]
          /\ ~frames[i].aabb_overlaps_player

\* ------------------------------------------------------------------------
\* C28
\* ------------------------------------------------------------------------

\* At the exit check of the tick that is starting, if one is performed with
\* movement started, the counter equals the number of frames holding a key.
CounterRightAtExitCheck ==
    \A d \in {AtInteractions} :
        (d.movement_started /\ d.player.exists) => d.num_remaining_keys = KeyFrames(d.frames)

\* C28: after every tick the remaining-keys counter equals the number of
\* frames whose key list is not empty, and at every exit check performed with
\* movement started it equals that number for the current level's frames.
C28_CounterCountsKeyFrames ==
    /\ [](num_remaining_keys = KeyFrames(frames))
    /\ [][CounterRightAtExitCheck]_vars

\* The part of C28 about the exit check alone.
C28_CounterAtExitCheck == [][CounterRightAtExitCheck]_vars

\* A restart gave a collected key back and left the counter at the count
\* taken before it.
C28_StaleAfterRestart ==
    /\ "respawn" \in obs.ev
    /\ num_remaining_keys < KeyFrames(frames)

\* ------------------------------------------------------------------------
\* C29
\* ------------------------------------------------------------------------

\* The session of the tick that is starting, just before the grounded probe.
AtGroundCheck ==
    Bind(AtInteractions, LAMBDA d :
    Bind(CountKeys(Interactions(d)), LAMBDA a :
        IF a.player.exists THEN HorizontalControl(a, keys') ELSE a))

\* What the claim speaks of for every frame of fs, in list order.
Placement(fs) ==
    [i \in 1 .. Len(fs) |->
        [type |-> fs[i].type, pos |-> fs[i].pos,
         player_is_under_this_frame |-> fs[i].player_is_under_this_frame,
         aabb_overlaps_player |-> fs[i].aabb_overlaps_player]]

\* C29: the grounded probe leaves every frame as it was (flags, position and
\* order), no step between the occlusion pass and the sweep changes a frame's
\* flags, position or place in the list, and a tick that ends with an
\* under_player flag the pass had not set has run the sweep.
C29_ProbeLeavesFrames ==
    [][ /\ \A b \in {AtGroundCheck} :
              b.player.exists => GroundCheck(b).frames = b.frames
        /\ \A g \in {AtPositionUpdate} :
              /\ Placement(g.frames) = Placement(AtInteractions.frames)
              /\ (\E i \in 1 .. Len(g.frames) :
                      /\ i <= Len(frames') /\ frames'[i].type = g.frames[i].type
                      /\ frames'[i].player_is_under_this_frame
                      /\ ~g.frames[i].player_is_under_this_frame)
                 => obs'.sweep.ran /\ obs'.sweep.int_vel # vec(0, 0) ]_vars

\* The probe of the last tick met a solid tile of a frame that a
\* movement-validation query would have flagged, and flagged nothing.
C29_ProbeMetUnflaggedFrame ==
    /\ movement_started /\ player.exists /\ obs.sweep.ran
    /\ Len(obs.under_after_pass) = Len(frames)
    /\ \A fs \in {WithFlags(frames, obs.under_after_pass)} :
          /\ SolidAtOffset(fs, obs.sweep.from, obs.topmost_touched_frame,
                           vec(0, 1), TRUE).frames # fs
          /\ SolidAtOffset(fs, obs.sweep.from, obs.topmost_touched_frame,
                           vec(0, 1), FALSE).frames = fs

\* ------------------------------------------------------------------------
\* The one-pixel sweep on its own
\* ------------------------------------------------------------------------
\* The loop of "Update position" taken one attempt at a time, for every step
\* vector up to MaxStep pixels per axis, in the second level with the box
\* dragged beside the desert.  obs.sweep carries the loop's locals: .int_vel
\* the requested step, .left what is left of it, .steps the committed steps;
\* obs.expected is what the sweep of a whole tick makes of the same start.
\* stage is the place in the loop: 0 before the sweep, 1 before the
\* horizontal attempt, 2 before the vertical one, 3 after the loop.

MaxStep == 3

SweepPlaces == { vec(-50, -14), vec(-50, -12), vec(-44, -13), vec(-30, -12) }

SweepVels == { vec(FP, FP), vec(-FP, -FP), vec(FP, -FP), vec(0, 0) }

\* The second level with the box beside the desert and movement started.
SweepBase ==
    [Loaded(1) EXCEPT !.frames[2].pos = BoxPlace,
                      !.movement_started = TRUE,
                      !.player.vel_comp = vec(30, -30)]

SweepStart(p, v) ==
    UpdateAABBFlags([SweepBase EXCEPT !.player.pos = p, !.player.vel = v])

SweepResult(w) ==
    [pos |-> w.player.pos, vel |-> w.player.vel, vel_comp |-> w.player.vel_comp,
     under |-> UnderFlags(w.frames), steps |-> w.sweep.steps,
     movement_timer |-> w.player.movement_timer]

\* The session variables at the start of the sweep of session w for the
\* requested step iv.
SweepBegins(w, iv) ==
    /\ frames' = w.frames
    /\ player' = w.player
    /\ obs' = [topmost_touched_frame |-> w.topmost_touched_frame,
               under_after_pass |-> UnderFlags(w.frames),
               sweep |-> [ran |-> FALSE, from |-> w.player.pos, int_vel |-> iv, left |-> iv,
                          steps |-> <<>>, moved_x |-> FALSE, vel |-> w.player.vel],
               expected |-> SweepResult(Sweep(w, iv))]

\* Before the sweep: the base session, nothing requested yet (stage 0).
InitSweep ==
    /\ frames = SweepBase.frames
    /\ current_level_index = SweepBase.current_level_index
    /\ fade = SweepBase.fade
    /\ winning_fade_out = SweepBase.winning_fade_out
    /\ player = SweepBase.player
    /\ movement_started = SweepBase.movement_started
    /\ num_remaining_keys = SweepBase.num_remaining_keys
    /\ reset_button_hovered = SweepBase.reset_button_hovered
    /\ dragged_at_least_once = SweepBase.dragged_at_least_once
    /\ content_error = SweepBase.content_error
    /\ terminated = SweepBase.terminated
    /\ obs = [topmost_touched_frame |-> NoIndex,
              under_after_pass |-> UnderFlags(SweepBase.frames),
              sweep |-> [ran |-> FALSE, from |-> SweepBase.player.pos,
                         int_vel |-> vec(0, 0), left |-> vec(0, 0),
                         steps |-> <<>>, moved_x |-> FALSE, vel |-> vec(0, 0)],
              expected |-> SweepResult(SweepBase)]
    /\ mouse = [pos |-> vec(0, 0), is_down |-> FALSE, is_down_prev |-> FALSE]
    /\ keys = [left |-> KeyUp, right |-> KeyUp, jump |-> KeyUp, reset |-> KeyUp]
    /\ stage = 0
    /\ used = 0

\* The tick reaches "Update position" with the player at one of the places,
\* one of the velocities and one of the step vectors.
BeginSweep ==
    /\ stage = 0
    /\ \E p \in SweepPlaces, v \in SweepVels,
          iv \in { vec(a, b) : a \in -MaxStep .. MaxStep, b \in -MaxStep .. MaxStep } :
          \E w \in {SweepStart(p, v)} : SweepBegins(w, iv)
    /\ stage' = 1
    /\ UNCHANGED << current_level_index, fade, winning_fade_out, movement_started,
                    num_remaining_keys, reset_button_hovered, mouse, keys,
                    dragged_at_least_once, content_error, terminated, used >>

\* The loop's locals as SweepAxis takes them.
SweepLocals ==
    [frames |-> frames, pos |-> player.pos, int_vel |-> obs.sweep.left,
     vel |-> player.vel, vel_comp |-> player.vel_comp,
     moved_x |-> obs.sweep.moved_x, steps |-> obs.sweep.steps]

\* The session variables after the attempt that left the locals st.
Attempted(st) ==
    /\ frames' = st.frames
    /\ player' = [player EXCEPT !.pos = st.pos, !.vel = st.vel, !.vel_comp = st.vel_comp]
    /\ obs' = [obs EXCEPT !.sweep.left = st.int_vel, !.sweep.steps = st.steps,
                          !.sweep.moved_x = st.moved_x]
    /\ used' = used + 1
    /\ UNCHANGED << current_level_index, fade, winning_fade_out, movement_started,
                    num_remaining_keys, reset_button_hovered, mouse, keys,
                    dragged_at_least_once, content_error, terminated >>

\* The body of the for loop with vert = false, entered when the while
\* condition holds.
AttemptX ==
    /\ stage = 1
    /\ obs.sweep.left # vec(0, 0)
    /\ \E st \in {SweepAxis(SweepLocals, FALSE, obs.topmost_touched_frame)} : Attempted(st)
    /\ stage' = 2

\* The body of the for loop with vert = true.
AttemptY ==
    /\ stage = 2
    /\ \E st \in {SweepAxis(SweepLocals, TRUE, obs.topmost_touched_frame)} : Attempted(st)
    /\ stage' = 1

\* The while condition fails: player.pos += int_vel and the movement timer.
FinishSweep ==
    /\ stage = 1
    /\ obs.sweep.left = vec(0, 0)
    /\ player' = [player EXCEPT !.pos = vadd(@, obs.sweep.left),
                                !.movement_timer = IF obs.sweep.moved_x THEN @ + 1 ELSE 0]
    /\ obs' = [obs EXCEPT !.sweep.ran = TRUE]
    /\ stage' = 3
    /\ UNCHANGED << frames, current_level_index, fade, winning_fade_out, movement_started,
                    num_remaining_keys, reset_button_hovered, mouse, keys,
                    dragged_at_least_once, content_error, terminated, used >>

\* A step of the loop.
LoopStep == AttemptX \/ AttemptY \/ FinishSweep

NextSweep == BeginSweep \/ LoopStep

\* The loop moves on to its next place.  In a state with stage 1 or 2 a step
\* of the loop is possible (AttemptY asks only for stage 2, AttemptX and
\* FinishSweep between them for stage 1) and every step of the loop changes
\* stage.
LoopMovesOn == stage \in {1, 2} /\ stage' \in {1, 2, 3} /\ stage' # stage

\* The loop runs on within the tick: once begun, it does not wait for ever
\* at a place where it can move on.
SpecSweep == InitSweep /\ [][NextSweep]_vars /\ WF_stage(LoopMovesOn)

\* ------------------------------------------------------------------------
\* C30
\* ------------------------------------------------------------------------

XStep(d) == IF d > 0 THEN vec(1, 0) ELSE vec(-1, 0)

YStep(d) == IF d > 0 THEN vec(0, 1) ELSE vec(0, -1)

\* The answer of the collision query for the one-pixel offset o in the
\* current state.
QueryBlocked(o) ==
    SolidAtOffset(frames, player.pos, obs.topmost_touched_frame, o, TRUE).ret

\* What one attempt on an axis with d pixels left, offset o, velocity v
\* before and v2 after, d2 pixels left after, may do.
AttemptRule(d, o, v, v2, d2) ==
    IF d = 0 THEN player'.pos = player.pos /\ v2 = v /\ d2 = 0
    ELSE IF QueryBlocked(o)
         THEN /\ player'.pos = player.pos
              /\ d2 = 0
              /\ v2 = IF d * v > 0 THEN 0 ELSE v
         ELSE /\ player'.pos = vadd(player.pos, o)
              /\ d2 = d - (o.x + o.y)
              /\ v2 = v

\* The committed steps of the list s along x (or y) all equal o, and there
\* are at most n of them.
StepsAlong(s, o, n) ==
    LET mine == { k \in 1 .. Len(s) : (s[k].x # 0) = (o.x # 0) }
    IN  /\ \A k \in mine : s[k] = o
        /\ Cardinality(mine) <= n

RECURSIVE SumSteps(_)
SumSteps(s) == IF s = <<>> THEN vec(0, 0) ELSE vadd(s[1], SumSteps(Tail(s)))

\* A rank of the loop's places that every step of the loop lowers: three
\* for every pixel left, and the place in the iteration.
LoopRank(st, left) ==
    IF st = 3 THEN 0
    ELSE 3 * (Abs(left.x) + Abs(left.y))
           + (IF st = 1 THEN 2 ELSE IF left.y # 0 THEN 1 ELSE 4)

\* What a step of the loop may do, by its place in the loop.
SweepStepRule ==
    /\ stage \in {1, 2} => LoopRank(stage', obs'.sweep.left) < LoopRank(stage, obs.sweep.left)
    /\ (stage = 1 /\ stage' = 2) =>
          (/\ AttemptRule(obs.sweep.left.x, XStep(obs.sweep.left.x),
                          player.vel.x, player'.vel.x, obs'.sweep.left.x)
           /\ player'.vel.y = player.vel.y
           /\ obs'.sweep.left.y = obs.sweep.left.y)
    /\ (stage = 2) =>
          (/\ AttemptRule(obs.sweep.left.y, YStep(obs.sweep.left.y),
                          player.vel.y, player'.vel.y, obs'.sweep.left.y)
           /\ player'.vel.x = player.vel.x
           /\ obs'.sweep.left.x = obs.sweep.left.x)
    /\ (stage' = 3) => (player'.pos = player.pos)

\* The steps committed so far, and the end of the sweep.
SweepStepsSoFar ==
    /\ StepsAlong(obs.sweep.steps, XStep(obs.sweep.int_vel.x), Abs(obs.sweep.int_vel.x))
    /\ StepsAlong(obs.sweep.steps, YStep(obs.sweep.int_vel.y), Abs(obs.sweep.int_vel.y))
    /\ player.pos = vadd(obs.sweep.from, SumSteps(obs.sweep.steps))
    /\ used <= 2 * (MaxStep + 1)
    /\ (stage = 3) =>
          (obs.expected = [pos |-> player.pos, vel |-> player.vel,
                           vel_comp |-> player.vel_comp, under |-> UnderFlags(frames),
                           steps |-> obs.sweep.steps,
                           movement_timer |-> player.movement_timer])

\* C30: the sweep, once begun, ends for every step vector; each attempt moves the player
\* by the one-pixel offset of its axis exactly when the query for that offset
\* reports not blocked, and otherwise leaves the player, ends the axis and
\* zeroes its velocity only if the velocity has the sign of the step; the
\* steps of an axis point the way of the requested step and number at most
\* its magnitude; an axis with nothing left moves no more; and the sweep of a
\* whole tick gives the same end.
C30_SweepSteps ==
    /\ (stage = 1) ~> (stage = 3)
    /\ [][SweepStepRule]_vars
    /\ []SweepStepsSoFar

\* A sweep ended with one axis blocked part of the way, its velocity against
\* the step kept, and the other axis carried out in full.
C30_BlockedPartWay ==
    /\ stage = 3
    /\ obs.sweep.int_vel.y > 1
    /\ player.pos.y - obs.sweep.from.y > 0
    /\ player.pos.y - obs.sweep.from.y < obs.sweep.int_vel.y
    /\ obs.sweep.vel.y < 0 /\ player.vel.y = obs.sweep.vel.y
    /\ obs.sweep.int_vel.x # 0
    /\ player.pos.x - obs.sweep.from.x = obs.sweep.int_vel.x

\* ------------------------------------------------------------------------
\* Walking and releasing
\* ------------------------------------------------------------------------
\* The player stands on the flower island with movement started; the keys
\* are pressed in any way for up to MaxPressTicks ticks and then give no net
\* horizontal input for up to MaxReleaseTicks ticks (stage 2, where `used`
\* counts the ticks since the release).

MaxPressTicks == 4

MaxReleaseTicks == 5

ControlXs == {-50, -44}

NoNetInputs == { Idle, Input(Away, FALSE, KeyBoth) }

PlanControl ==
    << Stage({Walk, WalkLeft} \cup NoNetInputs, 1, MaxPressTicks),
       Stage(NoNetInputs, 1, MaxReleaseTicks) >>

InitControl ==
    /\ \E x \in ControlXs : InitSession(Landing(x, 0))
    /\ InitInputs

TickControl == Run(PlanControl)

NextControl == TickControl

SpecControl == InitControl /\ [][NextControl]_vars

\* ------------------------------------------------------------------------
\* C31
\* ------------------------------------------------------------------------

\* What the control step of the tick that is starting does to vel.x: g is
\* the session just after the step.
ControlRule ==
    \A g \in {AtGroundCheck} :
        g.player.exists =>
            /\ Abs(g.player.vel.x) <= walk_speed
            /\ (NetHorizontal(keys') = 0 \/ ~g.dragged_at_least_once) =>
                  (/\ Abs(g.player.vel.x) <= Abs(player.vel.x)
                   /\ g.player.vel.x * player.vel.x >= 0
                   /\ (player.vel.x # 0 => Abs(g.player.vel.x) < Abs(player.vel.x)))

\* C31: after the control step of every tick |vel.x| <= walk_speed; with no
\* net horizontal input the speed does not grow and the velocity does not
\* change sign (it stops at 0), and four ticks after the release it is 0.
C31_HorizontalControl ==
    /\ [][ControlRule]_vars
    /\ []((stage = 2 /\ used >= 4 /\ player.exists) => player.vel.x = 0)

\* Three ticks after a release from full speed the player still moves.
C31_StillMovingAfterThree ==
    /\ stage = 2 /\ used = 3
    /\ player.exists
    /\ player.vel.x # 0

\* ------------------------------------------------------------------------
\* C32
\* ------------------------------------------------------------------------

\* The session of the tick that is starting, just before the jumping block.
AtJumping == Bind(AtGroundCheck, LAMBDA b : IF b.player.exists THEN GroundCheck(b) ELSE b)

\* What gravity makes of the vertical velocity of e.
Fallen(e) ==
    IF e.movement_started
    THEN LET v == e.player.vel.y
                  + (IF e.player.holding_jump THEN gravity ELSE gravity_lowjump)
         IN  IF v > max_fall_speed THEN max_fall_speed ELSE v
    ELSE e.player.vel.y

\* c is the session before the jumping block and e the session after it.
JumpRule ==
    \A c \in {AtJumping} :
        c.player.exists =>
            \A e \in {Jumping(c, keys')} :
                /\ c.player.holding_jump = player.holding_jump
                /\ c.player.vel.y = player.vel.y
                /\ (e.player.holding_jump /\ ~player.holding_jump) =>
                      (/\ c.player.on_ground
                       /\ IsPressed(keys'.jump)
                       /\ e.player.vel.y = -jump_speed
                       /\ e.player.vel_comp.y = 0)
                /\ (~c.player.on_ground /\ (~keys'.jump.is_down \/ player.vel.y > 0)) =>
                      ~e.player.holding_jump
                /\ (e.player.holding_jump /\ ~c.player.on_ground) =>
                      (player.holding_jump /\ keys'.jump.is_down /\ player.vel.y <= 0)
                /\ Gravity(e).player.vel.y = Fallen(e)
                /\ ("respawn" \notin obs'.ev /\ "load" \notin obs'.ev /\ player'.exists) =>
                      player'.holding_jump = e.player.holding_jump
                /\ (player'.holding_jump /\ ~player.holding_jump) => "jump" \in obs'.ev

\* C32: the holding-jump flag is set only by a fresh jump press on the
\* ground, which sets the jump velocity and clears the vertical remainder;
\* airborne it is cleared in the first tick where jump is not held or the
\* velocity points down and is not set again in the air; gravity adds the
\* lower constant with the flag and the higher one without, only once
\* movement has started, and vel.y never exceeds max_fall_speed.
C32_VariableJump ==
    /\ [][JumpRule]_vars
    /\ [](player.vel.y <= max_fall_speed /\ gravity < gravity_lowjump)

\* Rising in the air after the jump key was released: the flag is cleared.
C32_ReleasedWhileRising ==
    /\ player.exists /\ movement_started
    /\ ~player.on_ground
    /\ player.vel.y < 0
    /\ ~keys.jump.is_down
    /\ ~player.holding_jump

\* ------------------------------------------------------------------------
\* C33
\* ------------------------------------------------------------------------

DraggedFrames(fs) == { i \in 1 .. Len(fs) : fs[i].dragged }

\* The session of the tick that is starting, just after "Start drag".
AfterStartDrag ==
    Bind(ResetButton(Session, mouse', keys'), LAMBDA a :
    Bind(ClickKill(a, mouse'), LAMBDA w1 :
    Bind(HoveredFrameIndex(w1, mouse'), LAMBDA h :
    Bind(ResolveHover(w1, mouse'), LAMBDA b :
        StartDrag([b EXCEPT !.any_dragged = (DraggedFrames(w1.frames) # {})], mouse', h)))))

\* When the finish and continue steps run, the frames marked dragged are the
\* last one or none, and any_frame_dragged says which.
DragStepsRule ==
    \A a \in {AfterStartDrag} :
        /\ DraggedFrames(a.frames) \subseteq {Len(a.frames)}
        /\ a.any_dragged <=> (DraggedFrames(a.frames) # {})

\* C33: in every state at most one frame is marked dragged and it is the
\* last of the list, also when the finish and continue steps of a tick run.
C33_DraggedIsLast ==
    /\ [](DraggedFrames(frames) \subseteq {Len(frames)})
    /\ [][DragStepsRule]_vars

\* A frame is still being dragged in the tick that restarted the level.
C33_DraggedAcrossRestart ==
    /\ "respawn" \in obs.ev
    /\ DraggedFrames(frames) # {}

\* ------------------------------------------------------------------------
\* C34
\* ------------------------------------------------------------------------

\* The four states, with what each of them says about the three fields.
SessionStates ==
    { [exists |-> TRUE,  started |-> FALSE, winning |-> FALSE],
      [exists |-> TRUE,  started |-> TRUE,  winning |-> FALSE],
      [exists |-> FALSE, started |-> TRUE,  winning |-> FALSE],
      [exists |-> FALSE, started |-> TRUE,  winning |-> TRUE] }

\* C34: after every tick the session is in exactly one of Editing, Moving,
\* Dying and Winning: the player is absent only with movement started, a
\* win has the player absent and movement started, and the death timer is 0
\* whenever the player exists.
C34_FourStates ==
    /\ [exists |-> player.exists, started |-> movement_started,
         winning |-> winning_fade_out] \in SessionStates
    /\ ~player.exists => movement_started
    /\ winning_fade_out => (~player.exists /\ movement_started)
    /\ player.exists => player.death_timer = 0
    /\ ~movement_started => Editing

\* The tick of a restart: the timer that had passed the delay is 0 again
\* and the session is back in Editing.
C34_EditingAfterRestart ==
    /\ "respawn" \in obs.ev
    /\ Editing
    /\ player.death_timer = 0

\* ------------------------------------------------------------------------
\* C35
\* ------------------------------------------------------------------------

\* The tick that is starting leaves every frame at its place in the list and
\* on the screen.
FramesStay ==
    /\ TypesOf(frames') = TypesOf(frames)
    /\ PositionsOf(frames') = PositionsOf(frames)

\* C35: a tick that starts with movement started and whose physics step
\* finds the player existing changes no frame's position and no frame's
\* place in the list.
C35_FramesFrozenDuringPlay ==
    [][(movement_started /\ AtGroundCheck.player.exists) => FramesStay]_vars

\* A drag that was still on when play began is ended by the tick although
\* the button is held.
C35_DragEndedByPlay ==
    /\ "drag_end" \in obs.ev
    /\ mouse.is_down
    /\ movement_started /\ player.exists

\* ------------------------------------------------------------------------
\* C36
\* ------------------------------------------------------------------------

\* C36: a tick emits the death event exactly when it takes the session from
\* Moving to Dying; no tick that starts in Editing, in Dying or in Winning,
\* and no tick that wins, emits it.
C36_DeathEventOncePerDeath ==
    [][("death" \in obs'.ev) <=> (Moving /\ Dying')]_vars

\* The first tick of a death that no input caused: the player left the
\* screen and the event was emitted.
C36_DeathByBounds ==
    /\ "death" \in obs.ev
    /\ Dying
    /\ player.death_timer = 1
    /\ OutOfBounds(player.pos)
    /\ ~IsPressed(mouse) /\ ~IsPressed(keys.reset)

\* ------------------------------------------------------------------------
\* Jumping at the top of the screen
\* ------------------------------------------------------------------------
\* In the level of the snek frame, whose player marker is in the top row of
\* the frame, the frame is dragged to the top of the screen (the clamp stops
\* it 8 pixels from the edge), in the middle or in the left corner; the
\* player jumps with the key held for up to MaxFlight ticks and then falls
\* for up to MaxDescent ticks.

MaxFlight == 24

MaxDescent == 15

\* The index of the level whose first frame is the snek.
SnekLevel == CHOOSE i \in 0 .. LastLevel : levels[i + 1][1].type = "snek"

SnekHome == vec(0, 40)

TopPlaces == { vec(0, -200), vec(-300, -200) }

JumpHeld == Input(Away, FALSE, KeyJump)

PlanTop ==
    << Stage({Hold(SnekHome)}, 1, 1),
       Stage({ Hold(q) : q \in TopPlaces }, 1, 1),
       Stage({Idle}, 1, 1),
       Stage({JumpHeld}, 1, MaxFlight),
       Stage({Idle}, 1, MaxDescent) >>

InitTop == InitSession(Loaded(SnekLevel)) /\ InitInputs

TickTop == Run(PlanTop)

NextTop == TickTop

SpecTop == InitTop /\ [][NextTop]_vars

\* ------------------------------------------------------------------------
\* C37
\* ------------------------------------------------------------------------

\* C37: after every tick a player that exists is inside the screen's left,
\* right and bottom bounds (-240 < x <= 240, y <= 135); the top is open.
C37_AliveWithinBounds ==
    /\ screen_size_x = 480 /\ screen_size_y = 270
    /\ player.exists =>
          (/\ -240 < player.pos.x /\ player.pos.x <= 240
           /\ player.pos.y <= 135)
    /\ (~player.exists /\ player.death_timer = 1 /\ "death" \in obs.ev
            /\ ~IsPressed(mouse) /\ ~IsPressed(keys.reset)) =>
          ~(-240 < player.pos.x /\ player.pos.x <= 240 /\ player.pos.y <= 135)

\* The player is alive above the top of the screen.
C37_AliveAboveTop ==
    /\ player.exists
    /\ player.pos.y < -135

\* ------------------------------------------------------------------------
\* Every level: load, start, death, restart
\* ------------------------------------------------------------------------
\* From the load of any level of the list: a press on the centre of some
\* level's first frame, a release, the start of movement, a reset, and the
\* wait until the level restarts.

MaxRestartWait == 2

FirstFrameCentres == { levels[i][1].pos : i \in 1 .. Len(levels) }

PlanLevels ==
    << Stage({ Hold(q) : q \in FirstFrameCentres }, 1, 1),
       Stage({Idle}, 1, 1),
       Stage({Jump, Walk}, 1, 2),
       Stage({Input(Away, FALSE, KeyReset)}, 1, 1),
       Stage({Idle}, death_delay, death_delay + MaxRestartWait) >>

InitLevels ==
    /\ \E w \in {Constructed(0)} \cup { Loaded(idx) : idx \in 1 .. LastLevel } : InitSession(w)
    /\ InitInputs

TickLevels == Run(PlanLevels)

NextLevels == TickLevels

SpecLevels == InitLevels /\ [][NextLevels]_vars

\* ------------------------------------------------------------------------
\* C38
\* ------------------------------------------------------------------------

\* Every frame of every level has, in its template, the marker of each
\* entity it requests.
MarkersPresent ==
    \A l \in 1 .. Len(levels) : \A i \in 1 .. Len(levels[l]) :
        \A k \in 1 .. Len(levels[l][i].spawned_entity_types) :
            MarkerCells(levels[l][i].type, MarkerChars[k]) # {}

PlayerFrames(fs) == Cardinality({ i \in 1 .. Len(fs) : SpawnsPlayer(fs[i]) })

ExitFrames(fs) == Cardinality({ i \in 1 .. Len(fs) : fs[i].exit_pos # <<>> })

\* C38: no level of the list raises the content error, on load or on
\* restart: every requested marker is in the frame's template, and before
\* movement starts (after a load, after a restart) one frame has spawned the
\* player and one frame carries an exit.
C38_LevelsLoad ==
    /\ MarkersPresent
    /\ ~content_error
    /\ PlayerFrames(frames) = 1
    /\ ~movement_started => (player.exists /\ ExitFrames(frames) = 1)
    /\ ~winning_fade_out => ExitFrames(frames) = 1

\* The tick that restarted the level of the snek frame, which requests three
\* entities.
C38_SnekRestarted ==
    /\ "respawn" \in obs.ev
    /\ current_level_index = SnekLevel
    /\ player.exists /\ ExitFrames(frames) = 1 /\ KeyFrames(frames) = 1

\* ------------------------------------------------------------------------
\* C39
\* ------------------------------------------------------------------------

\* The marker cell from which frame f spawns the player.
PlayerCell(f) ==
    FirstMarkerCell(f.type,
        MarkerChars[CHOOSE k \in 1 .. Len(f.spawned_entity_types) :
                        f.spawned_entity_types[k] = "player"])

\* Every pixel of the hitbox of a player at pos is in cell c of f, and the
\* cell is not solid.
HitboxInCell(f, pos, c) ==
    \A n \in 1 .. Len(player_hitbox_full) :
        \A q \in {vadd(pos, player_hitbox_full[n])} :
            /\ TileCoordX(f, q.x) = c[1]
            /\ TileCoordY(f, q.y) = c[2]
            /\ QueryWorldPixel(f, q.x, q.y) = 0

\* The flags the pass leaves in d when movement has not started, and where
\* that puts the player.
EditingFlagsRule(d) ==
    /\ d.player.exists
    /\ \A i \in 1 .. Len(d.frames) :
          /\ d.frames[i].player_is_under_this_frame <=>
                (/\ CornerInRect(d.frames[i], d.player.pos)
                 /\ \E j \in 1 .. i - 1 : SpawnsPlayer(d.frames[j]))
          /\ SpawnsPlayer(d.frames[i]) =>
                (/\ ~d.frames[i].player_is_under_this_frame
                 /\ HitboxInCell(d.frames[i], d.player.pos, PlayerCell(d.frames[i])))
    /\ ~Blocked(d.frames, d.player.pos)

\* C39: in a tick that starts before movement, the flags after the occlusion
\* pass depend on the frames' places only: a frame is flagged exactly when
\* it holds a hitbox corner and is listed after a frame that spawns the
\* player; the spawning frame is not flagged, the whole hitbox is in its
\* marker tile, which is not solid, and the player is not blocked.
C39_EditingFlags ==
    [][~movement_started => EditingFlagsRule(AtInteractions)]_vars

\* Before movement a frame lies over the player with a solid tile on the
\* hitbox; it is flagged and does not block.
C39_SolidFrameOverPlayer ==
    /\ Editing
    /\ \E i \in 1 .. Len(frames) : frames[i].player_is_under_this_frame
    /\ Blocked(WithFlags(frames, [i \in 1 .. Len(frames) |-> FALSE]), player.pos)
    /\ ~Blocked(frames, player.pos)

====
